---- MODULE Spec2Model ----
(***************************************************************************)
(* DevGram: a chat bot that drives a persistent shell session and a tmux   *)
(* pane.  The module models                                                *)
(*   - the overlap diff _increment            (src/bot/tmux_bridge.py),    *)
(*   - the idle-wait loop send_and_wait_idle  (src/bot/tmux_bridge.py),    *)
(*   - the per-target locks, the terminal handlers and the sessions of     *)
(*     BotApp                                 (src/bot/bot.py),            *)
(*   - the shell session's working directory  (src/bot/shell_session.py),  *)
(*   - the projects manager                   (src/bot/projects.py).       *)
(* Eight specifications share the variables: SpecDiff, SpecIdle, Spec (the *)
(* concurrent terminal handlers), SpecShell (working directory, binding,   *)
(* persistence), SpecRun (one ShellSession and its run), SpecKeys (one     *)
(* call of send_keys), SpecLoad (loading session files) and SpecAuth (the  *)
(* allow list).  A specification keeps the variables of the other parts    *)
(* at their parked values.                                                 *)
(***************************************************************************)
EXTENDS Integers, Sequences, FiniteSets, TLC

VARIABLES
    \* ---- overlap diff
    dpc,            \* "in" before the call of _increment, "out" after it
    prev,           \* argument prev
    new,            \* argument new
    out,            \* the value returned
    \* ---- one call of send_and_wait_idle
    ipc,            \* position in the call
    iarg,           \* argument prev_snapshot
    iprev,          \* local prev_snapshot after the seeding
    last,           \* local last
    stable_count,   \* local stable_count
    elapsed,        \* poll intervals slept since the deadline was set
    captured,       \* the text the most recent capture returned
    recent,         \* the latest samples of the poll loop, newest first
    steady,         \* every capture since the send equals the first and is not busy
    seedcap,        \* what the capture before the send returned
    result,         \* the TmuxResult returned
    \* ---- the bot
    projects_dir,   \* settings.projects_dir
    tmux_exists,    \* shutil.which("tmux") is not None
    dirs,           \* the directories that exist, resolved
    panes,          \* the tmux sessions that run, by project slug
    sessions,       \* BotApp.sessions: chat -> Session
    disk,           \* data/sessions/<chat>.json: chat -> record
    tmux_locks,     \* BotApp._tmux_locks: target -> lock, 0 for no entry
    locks,          \* the asyncio.Lock objects created so far
    tasks,          \* the handler coroutines in flight
    update_id,      \* the Telegram updates dispatched so far
    cd_call,        \* the call of ShellSession.change_dir the last handler made, if any
    \* ---- one ShellSession and its calls of run
    rpc,            \* position in run: "idle" between calls
    sh_cmd,         \* argument command, parsed
    sh_cwd,         \* ShellSession.cwd
    sh_env,         \* ShellSession.env: key -> value
    sh_proc,        \* the subprocess run awaits: the cwd and env it was given
    sh_ret,         \* what the latest call of run returned
    reply,          \* whether _run_shell_text has answered the latest command
    \* ---- one call of TmuxBridge.send_keys
    kpc,            \* position in the call
    ktext,          \* text.splitlines()
    send_enter,     \* argument send_enter
    kpart,          \* the index of part in the loop
    keys            \* the keystrokes tmux has received, in order

diffVars == <<dpc, prev, new, out>>

idleVars ==
    <<ipc, iarg, iprev, last, stable_count, elapsed, captured, recent, steady, seedcap, result>>

\* the variables of the other parts
parkedVars == <<dpc, prev, new, out, ipc, iarg, iprev, last, stable_count, elapsed, captured,
                recent, steady, seedcap, result,
                rpc, sh_cmd, sh_cwd, sh_env, sh_proc, sh_ret, reply,
                kpc, ktext, send_enter, kpart, keys>>

runVars == <<rpc, sh_cmd, sh_cwd, sh_env, sh_proc, sh_ret, reply>>

keyVars == <<kpc, ktext, send_enter, kpart, keys>>

appVars ==
    <<projects_dir, tmux_exists, dirs, panes, sessions, disk, tmux_locks, locks, tasks,
      update_id, cd_call>>

\* the variables of the bot that a ShellSession on its own does not touch
appRest ==
    <<projects_dir, tmux_exists, panes, sessions, disk, tmux_locks, locks, tasks,
      update_id, cd_call>>

vars == <<diffVars, idleVars, appVars, runVars, keyVars>>

(***************************************************************************)
(* Text.  A text is a sequence of characters.  "a" and "b" are ordinary    *)
(* characters; "w" stands for the phrase "working (", "W" for the same     *)
(* phrase in capitals, "e" for "esc to interrupt".                         *)
(***************************************************************************)
MaxLen == 3

Chars == {"a", "b"}

Min(x, y) == IF x <= y THEN x ELSE y

Max(x, y) == IF x >= y THEN x ELSE y

\* All texts over the alphabet S of length at most n.
Strs(S, n) == UNION {[1..k -> S] : k \in 0..n}

\* Python slices s[-k:] and s[:k] and s[k:], for 0 < k <= len(s) (and k = 0 for the last two).
Suffix(s, k) == SubSeq(s, Len(s) - k + 1, Len(s))

Prefix(s, k) == SubSeq(s, 1, k)

Drop(s, k) == SubSeq(s, k + 1, Len(s))

(***************************************************************************)
(* _increment, tmux_bridge.py 31-43.  The for loop over                    *)
(* range(max_overlap, 0, -1) is the recursion on k; k = 0 ends the loop    *)
(* with start = 0.                                                         *)
(***************************************************************************)
RECURSIVE OverlapScan(_, _, _)
OverlapScan(p, n, k) ==
    IF k = 0 THEN 0
    ELSE IF Suffix(p, k) = Prefix(n, k) THEN k
    ELSE OverlapScan(p, n, k - 1)

\* a scan that starts one short of max_overlap: range(max_overlap - 1, 0, -1)
OverlapStartShort(p, n) == OverlapScan(p, n, Max(Min(Len(p), Len(n)) - 1, 0))

\* a scan that takes the shortest overlap: range(1, max_overlap + 1)
OverlapStartShortest(p, n) ==
    IF \E k \in 1..Min(Len(p), Len(n)) : Suffix(p, k) = Prefix(n, k)
    THEN CHOOSE k \in 1..Min(Len(p), Len(n)) :
            /\ Suffix(p, k) = Prefix(n, k)
            /\ \A j \in 1..(k - 1) : Suffix(p, j) # Prefix(n, j)
    ELSE 0

\* tmux_bridge.py 35-42: the scan from max_overlap down
OverlapStart(p, n) == OverlapScan(p, n, Min(Len(p), Len(n)))

_increment(p, n) ==
    IF p = <<>> THEN n
    ELSE Drop(n, OverlapStart(p, n))

DiffInit ==
    /\ dpc = "in"
    /\ prev \in Strs(Chars, MaxLen)
    /\ new \in Strs(Chars, MaxLen + MaxLen)
    /\ out = <<>>

DiffParked ==
    /\ dpc = "parked"
    /\ prev = <<>>
    /\ new = <<>>
    /\ out = <<>>

\* One call of _increment on the drawn arguments.
Diff ==
    /\ dpc = "in"
    /\ dpc' = "out"
    /\ out' = _increment(prev, new)
    /\ UNCHANGED <<prev, new>>
    /\ UNCHANGED <<idleVars, appVars, runVars, keyVars>>

(***************************************************************************)
(* Terminal bridge: send_and_wait_idle, tmux_bridge.py 110-152.            *)
(***************************************************************************)
\* Polls before the deadline.  The program's deadline is at least 30 s of
\* 0.5 s polls; the model keeps it above the idle threshold.
TimeoutTicks == 5

\* stable_count >= 3, tmux_bridge.py 148
IdleThreshold == 3

\* What a pane may show.
PaneChars == {"a", "W"}

PaneTexts == Strs(PaneChars, 2)

\* The prev_snapshot arguments a caller passes.
SnapshotArgs == {<<>>, <<"a">>, <<"W", "a">>}

\* capture() raised RuntimeError; no text a pane shows
CaptureError == <<"tmux capture-pane failed">>

\* no capture was attempted before the send
NotCaptured == <<"not captured">>

NoResult == [snapshot |-> <<>>, increment |-> <<>>]

\* str.lower() on the phrases
LowerChar(c) == IF c = "W" THEN "w" ELSE c

Lower(t) == [i \in 1..Len(t) |-> LowerChar(t[i])]

_looks_working(text) ==
    LET t == Lower(text)
    IN  \E i \in 1..Len(t) : t[i] \in {"e", "w"}

\* the seeding skipped: the baseline stays the argument
SeedSkipped(arg, c) == arg

\* tmux_bridge.py 122-126: c is what capture() returned, or CaptureError
Seed(arg, c) ==
    IF arg # <<>> THEN arg
    ELSE IF c = CaptureError THEN <<>>
    ELSE c

\* a counter that counts every unchanged sample, busy or not
PollCountIgnoresBusy(l, sc, c) == IF c = l THEN sc + 1 ELSE 0

\* tmux_bridge.py 139-146: the counter after a poll that captured c
PollCount(l, sc, c) ==
    IF c = l
    THEN IF ~_looks_working(c) THEN sc + 1 ELSE 0
    ELSE 0

\* tmux_bridge.py 139-146: last after a poll that captured c
PollLast(l, c) == IF c = l THEN l ELSE c

\* a loop that ignores the deadline: while True
LoopForever(e) == TRUE

\* tmux_bridge.py 135: while now < deadline
LoopGuard(e) == e < TimeoutTicks

\* a threshold never reached
IdleReachedNever(sc) == FALSE

\* tmux_bridge.py 148: if stable_count >= 3: break
IdleReached(sc) == sc >= IdleThreshold

IdleInit ==
    /\ ipc = "start"
    /\ iarg \in SnapshotArgs
    /\ iprev = <<>>
    /\ last = <<>>
    /\ stable_count = 0
    /\ elapsed = 0
    /\ captured = <<>>
    /\ recent = <<>>
    /\ steady = TRUE
    /\ seedcap = NotCaptured
    /\ result = NoResult

IdleParked ==
    /\ ipc = "parked"
    /\ iarg = <<>>
    /\ iprev = <<>>
    /\ last = <<>>
    /\ stable_count = 0
    /\ elapsed = 0
    /\ captured = <<>>
    /\ recent = <<>>
    /\ steady = TRUE
    /\ seedcap = NotCaptured
    /\ result = NoResult

\* 122-126: seed the baseline when the argument is empty
IdleSeed ==
    /\ ipc = "start"
    /\ \E c \in PaneTexts \cup {CaptureError} :
        /\ iprev' = Seed(iarg, c)
        /\ captured' = IF iarg = <<>> /\ c # CaptureError THEN c ELSE captured
        /\ seedcap' = IF iarg = <<>> THEN c ELSE NotCaptured
    /\ ipc' = "seeded"
    /\ UNCHANGED <<iarg, last, stable_count, elapsed, recent, steady, result>>
    /\ UNCHANGED <<diffVars, appVars, runVars, keyVars>>

\* 128: send_keys(text, send_enter=True); a failing send-keys raises
IdleSendKeys ==
    /\ ipc = "seeded"
    /\ \E ok \in BOOLEAN : ipc' = IF ok THEN "sent" ELSE "failed"
    /\ UNCHANGED <<iarg, iprev, last, stable_count, elapsed, captured, recent, steady, seedcap,
                   result>>
    /\ UNCHANGED <<diffVars, appVars, runVars, keyVars>>

\* 130-132: deadline, first capture, stable_count = 0
IdleFirstCapture ==
    /\ ipc = "sent"
    /\ \E c \in PaneTexts \cup {CaptureError} :
        IF c = CaptureError
        THEN /\ ipc' = "failed"
             /\ UNCHANGED <<last, captured, steady>>
        ELSE /\ ipc' = "loop"
             /\ last' = c
             /\ captured' = c
             /\ steady' = ~_looks_working(c)
    /\ stable_count' = 0
    /\ elapsed' = 0
    /\ UNCHANGED <<iarg, iprev, recent, seedcap, result>>
    /\ UNCHANGED <<diffVars, appVars, runVars, keyVars>>

\* 135-149: one iteration: sleep, capture, count, break at the threshold
IdlePoll ==
    /\ ipc = "loop"
    /\ LoopGuard(elapsed)
    /\ elapsed' = Min(elapsed + 1, TimeoutTicks + 1)
    /\ \E c \in PaneTexts \cup {CaptureError} :
        IF c = CaptureError
        THEN /\ ipc' = "failed"
             /\ UNCHANGED <<last, stable_count, captured, recent, steady>>
        ELSE /\ last' = PollLast(last, c)
             /\ stable_count' = PollCount(last, stable_count, c)
             /\ captured' = c
             /\ recent' = SubSeq(<<c>> \o recent, 1, Min(Len(recent) + 1, IdleThreshold))
             /\ steady' = (steady /\ c = last /\ ~_looks_working(c))
             /\ ipc' = IF IdleReached(stable_count') THEN "exit" ELSE "loop"
    /\ UNCHANGED <<iarg, iprev, seedcap, result>>
    /\ UNCHANGED <<diffVars, appVars, runVars, keyVars>>

\* 135: the loop condition fails, the deadline has passed
IdleDeadline ==
    /\ ipc = "loop"
    /\ ~LoopGuard(elapsed)
    /\ ipc' = "exit"
    /\ UNCHANGED <<iarg, iprev, last, stable_count, elapsed, captured, recent, steady, seedcap,
                   result>>
    /\ UNCHANGED <<diffVars, appVars, runVars, keyVars>>

\* 151-152
IdleReturn ==
    /\ ipc = "exit"
    /\ result' = [snapshot |-> last, increment |-> _increment(iprev, last)]
    /\ ipc' = "done"
    /\ UNCHANGED <<iarg, iprev, last, stable_count, elapsed, captured, recent, steady, seedcap>>
    /\ UNCHANGED <<diffVars, appVars, runVars, keyVars>>

IdleNext ==
    \/ IdleSeed
    \/ IdleSendKeys
    \/ IdleFirstCapture
    \/ IdlePoll
    \/ IdleDeadline
    \/ IdleReturn

(***************************************************************************)
(* Paths.  A path is the sequence of its components below "/"; ".." is a   *)
(* component until the path is resolved.  A directory argument typed by    *)
(* the user is a sequence of components that starts with "/" when it is    *)
(* absolute.  Symbolic links are not modelled.                             *)
(***************************************************************************)
\* settings.workspace_dir, config.py 53
WorkspaceDir == <<"ws">>

\* Path.cwd(): WORKSPACE_DIR defaults to ".", config.py 53
ProcessCwd == WorkspaceDir

\* settings.projects_dir, config.py 54: the default, or PROJECTS_DIR set elsewhere
DefaultProjectsDir == WorkspaceDir \o <<"projects">>

OutsideProjectsDir == <<"srv", "projects">>

Slugs == {"a", "b"}

Chats == {"c1", "c2"}

IsPrefixSeq(p, q) == Len(p) <= Len(q) /\ SubSeq(q, 1, Len(p)) = p

\* Path.mkdir(parents=True): the path and the directories above it
Prefixes(p) == {SubSeq(p, 1, k) : k \in 0..Len(p)}

Parent(p) == IF p = <<>> THEN <<>> ELSE SubSeq(p, 1, Len(p) - 1)

\* Path.resolve() without symbolic links: ".." steps to the parent
RECURSIVE ResolveFrom(_, _)
ResolveFrom(acc, rest) ==
    IF rest = <<>> THEN acc
    ELSE IF Head(rest) = ".." THEN ResolveFrom(Parent(acc), Tail(rest))
    ELSE ResolveFrom(Append(acc, Head(rest)), Tail(rest))

Resolve(p) == ResolveFrom(<<>>, p)

\* Path.exists() and Path.is_dir(): the walk the operating system makes, every
\* directory on the way has to exist
RECURSIVE WalkExists(_, _, _)
WalkExists(D, acc, rest) ==
    IF acc \notin D THEN FALSE
    ELSE IF rest = <<>> THEN TRUE
    ELSE IF Head(rest) = ".." THEN WalkExists(D, Parent(acc), Tail(rest))
    ELSE WalkExists(D, Append(acc, Head(rest)), Tail(rest))

ExistsDir(D, p) == WalkExists(D, <<>>, p)

\* shutil.rmtree(p) and rm -rf p: p and everything below it
RemoveTree(D, p) == {d \in D : ~IsPrefixSeq(Resolve(p), d)}

\* shell_session.py 12-17
_is_within(child, parent) == IsPrefixSeq(Resolve(parent), Resolve(child))

\* a clamp that lets every resolved path through
ClampNothing(path, workspace_root) == Resolve(path)

\* shell_session.py 20-24
_clamp_cwd(path, workspace_root) ==
    LET p == Resolve(path)
    IN  IF _is_within(p, workspace_root) THEN p ELSE workspace_root

(***************************************************************************)
(* Projects, projects.py.                                                  *)
(***************************************************************************)
\* projects.py 16-19 on the names the model types: lower-case, or "project" when empty
slugify(name) ==
    CASE name = "A" -> "a"
      [] name = "B" -> "b"
      [] name = "" -> "project"
      [] OTHER -> name

\* projects.py 55-56
_session_name(slug) == "codex-" \o slug

\* projects.py 52-53
target_for(slug) == _session_name(slug) \o ":0.0"

\* Python None for term_target
NoTarget == ""

TargetStrings == {target_for(s) : s \in Slugs}

(***************************************************************************)
(* Sessions, bot.py 49-124.                                                *)
(***************************************************************************)
\* projects.py 49-50
path_for(slug) == projects_dir \o <<slug>>

\* projects.py 46-47
exists(slug) == ExistsDir(dirs, path_for(slug))

\* bot.py 50-57
NewSession ==
    [mode |-> "shell",
     cwd |-> WorkspaceDir,
     workspace_root |-> WorkspaceDir,
     term_target |-> NoTarget,
     term_snapshot |-> <<>>]

\* bot.py 59-66
to_json(s) ==
    [mode |-> s.mode,
     cwd |-> s.cwd,
     term_target |-> s.term_target,
     term_snapshot |-> s.term_snapshot]

\* bot.py 68-79
from_json(data) ==
    [NewSession EXCEPT
        !.mode = data.mode,
        !.cwd = IF ExistsDir(dirs, data.cwd) THEN data.cwd ELSE WorkspaceDir,
        !.term_target = data.term_target,
        !.term_snapshot = data.term_snapshot]

\* bot.py 100-114: self.sessions after get_session(chat)
get_session(chat) ==
    IF chat \in DOMAIN sessions THEN sessions
    ELSE IF chat \in DOMAIN disk THEN (chat :> from_json(disk[chat])) @@ sessions
    ELSE (chat :> NewSession) @@ sessions

\* bot.py 116-124: the records after save_session(chat), S the sessions
save_session(S, D, chat) ==
    IF chat \in DOMAIN S THEN (chat :> to_json(S[chat])) @@ D ELSE D

\* the snapshot a conversation has, in memory or in its record
LastSnapshot(chat) ==
    IF chat \in DOMAIN sessions THEN sessions[chat].term_snapshot
    ELSE IF chat \in DOMAIN disk THEN disk[chat].term_snapshot
    ELSE <<>>

\* The updates a run receives.
MaxUpdates == 4

\* Application.run_polling, bot.py 547: an update is taken and dispatched
Received ==
    /\ update_id < MaxUpdates
    /\ update_id' = update_id + 1

(***************************************************************************)
(* Shell session, shell_session.py.                                        *)
(***************************************************************************)
\* The directory arguments of cd the model types.
CdTargets ==
    {<<"sub">>, <<"..">>, <<"..", "..", "etc">>, <<"nope">>,
     <<"/", "etc">>, <<"/", "ws", "projects", "a", "sub">>}

\* What a delegated command removes (rm -rf): nothing, or a directory tree.
RmTargets == {<<>>, path_for("a"), path_for("a") \o <<"sub">>}

\* shell_session.py 118-124: cwd at the start of run()
RunCwd(s) ==
    IF ExistsDir(dirs, s.cwd) THEN s.cwd
    ELSE IF ExistsDir(dirs, s.workspace_root) THEN s.workspace_root
    ELSE ProcessCwd

\* shell_session.py 46: target_path
TargetPath(cwd, target) ==
    IF target # <<>> /\ Head(target) = "/" THEN Tail(target)
    ELSE Resolve(cwd \o target)

\* a change_dir that commits before it tests the directory
ChangeDirCommitsFirst(s, target) ==
    LET new_cwd == _clamp_cwd(TargetPath(s.cwd, target), s.workspace_root)
    IN  [ok |-> ExistsDir(dirs, new_cwd), cwd |-> new_cwd]

\* shell_session.py 45-51: (ok, self.cwd afterwards)
change_dir(s, target) ==
    LET new_cwd == _clamp_cwd(TargetPath(s.cwd, target), s.workspace_root)
    IN  IF ~ExistsDir(dirs, new_cwd)
        THEN [ok |-> FALSE, cwd |-> s.cwd]
        ELSE [ok |-> TRUE, cwd |-> new_cwd]

\* before any call of change_dir
NoCall == [made |-> FALSE]

\* bot.py 364-373, 353-362 and shell_session.py 118-134: "/sh cd <target>",
\* or "/sh cd" when bare
ShellCd(chat, target, bare) ==
    LET S == get_session(chat)
        s0 == [S[chat] EXCEPT !.cwd = RunCwd(S[chat])]
        arg == IF bare THEN <<"/">> \o s0.workspace_root ELSE target
        r == change_dir(s0, arg)
        S1 == [S EXCEPT ![chat].cwd = r.cwd]
    IN  /\ UNCHANGED parkedVars
        /\ Received
        /\ sessions' = S1
        /\ disk' = save_session(S1, disk, chat)
        /\ cd_call' = [made |-> TRUE,
                       workspace_root |-> s0.workspace_root,
                       before |-> s0.cwd,
                       outside |-> ~_is_within(TargetPath(s0.cwd, arg), s0.workspace_root),
                       root_is_dir |-> ExistsDir(dirs, s0.workspace_root),
                       ok |-> r.ok,
                       after |-> r.cwd]
        /\ UNCHANGED <<projects_dir, tmux_exists, dirs, panes, tmux_locks, locks, tasks>>

\* bot.py 353-362 and shell_session.py 118-124, 151-170: a command handed to
\* bash; it may remove a directory tree
ShellCommand(chat, removed) ==
    LET S == get_session(chat)
        S1 == [S EXCEPT ![chat].cwd = RunCwd(S[chat])]
    IN  /\ UNCHANGED parkedVars
        /\ cd_call' = NoCall
        /\ Received
        /\ sessions' = S1
        /\ disk' = save_session(S1, disk, chat)
        /\ dirs' = IF removed = <<>> THEN dirs ELSE RemoveTree(dirs, removed)
        /\ UNCHANGED <<projects_dir, tmux_exists, panes, tmux_locks, locks, tasks>>

\* bot.py 386-390 and shell_session.py 40-43
HandleReset(chat) ==
    LET S == get_session(chat)
        S1 == [S EXCEPT ![chat].cwd = S[chat].workspace_root]
    IN  /\ UNCHANGED parkedVars
        /\ cd_call' = NoCall
        /\ Received
        /\ sessions' = S1
        /\ disk' = save_session(S1, disk, chat)
        /\ UNCHANGED <<projects_dir, tmux_exists, dirs, panes, tmux_locks, locks, tasks>>

(***************************************************************************)
(* Binding and deleting projects, bot.py 257-310.                          *)
(***************************************************************************)
\* The arguments of /open the model types.
OpenArgs == {"a", "b", "A"}

\* bot.py 257-272
HandleBindProject(chat, arg) ==
    LET slug == slugify(arg)
        S == get_session(chat)
        S1 == [S EXCEPT ![chat].cwd = path_for(slug),
                        ![chat].workspace_root = path_for(slug),
                        ![chat].term_target = target_for(slug),
                        ![chat].mode = "term"]
    IN  /\ UNCHANGED parkedVars
        /\ cd_call' = NoCall
        /\ Received
        /\ IF ~exists(slug)
           THEN UNCHANGED <<sessions, disk>>
           ELSE /\ sessions' = S1
                /\ disk' = save_session(S1, disk, chat)
        /\ UNCHANGED <<projects_dir, tmux_exists, dirs, panes, tmux_locks, locks, tasks>>

\* bot.py 303-309: the sessions after the loop over self.sessions
UnbindAll(S, target) ==
    [c \in DOMAIN S |->
        IF S[c].term_target = target
        THEN [S[c] EXCEPT !.term_target = NoTarget,
                          !.mode = "shell",
                          !.workspace_root = WorkspaceDir,
                          !.cwd = WorkspaceDir]
        ELSE S[c]]

\* bot.py 303-309: the records after the save_session calls of the loop
SaveUnbound(S0, S1, D, target) ==
    [c \in DOMAIN D \cup {x \in DOMAIN S0 : S0[x].term_target = target} |->
        IF c \in DOMAIN S0 /\ S0[c].term_target = target THEN to_json(S1[c]) ELSE D[c]]

\* bot.py 312-334, 299-310 and projects.py 96-107: the "Delete" button;
\* removed is whether shutil.rmtree succeeded
DeleteProject(slug, removed) ==
    /\ UNCHANGED parkedVars
    /\ cd_call' = NoCall
    /\ Received
    /\ exists(slug)
    /\ panes' = panes \ {slug}
    /\ IF removed
       THEN /\ dirs' = RemoveTree(dirs, path_for(slug))
            /\ sessions' = UnbindAll(sessions, target_for(slug))
            /\ disk' = SaveUnbound(sessions, sessions', disk, target_for(slug))
       ELSE UNCHANGED <<dirs, sessions, disk>>
    /\ UNCHANGED <<projects_dir, tmux_exists, tmux_locks, locks, tasks>>

\* bot.py 189-200: /mode shell|term
HandleMode(chat, mode) ==
    LET S == get_session(chat)
        S1 == [S EXCEPT ![chat].mode = mode]
    IN  /\ UNCHANGED parkedVars
        /\ cd_call' = NoCall
        /\ Received
        /\ sessions' = S1
        /\ disk' = save_session(S1, disk, chat)
        /\ UNCHANGED <<projects_dir, tmux_exists, dirs, panes, tmux_locks, locks, tasks>>

(***************************************************************************)
(* Per-target locks, bot.py 91-92, 126-131, and the handler coroutines.    *)
(* An asyncio.Lock is a flag and a FIFO queue of waiters; release wakes    *)
(* the first waiter, and a newcomer queues while there are waiters.        *)
(* holder records which coroutine set the flag.                            *)
(* The handlers that may be in flight together are NumTasks: the           *)
(* Application of bot.py 556-559 dispatches one update at a time unless    *)
(* built with concurrent_updates, and the locks are there for that case.   *)
(***************************************************************************)
NumTasks == 2

Tasks == 1..NumTasks

\* What a capture of a live pane returns during a turn.
TurnTexts == {<<>>, <<"a">>, <<"a", "b">>}

FreeLock == [locked |-> FALSE, waiters |-> <<>>, holder |-> 0]

\* probed: TmuxBridge.available() was called in this request and returned True
IdleTask ==
    [pc |-> "idle", kind |-> "none", chat |-> "", target |-> NoTarget, lock |-> 0,
     iprev |-> <<>>, exit |-> "none", probed |-> FALSE]

\* A request is served by the first free coroutine slot.
FreeSlot(t) == tasks[t].pc = "idle" /\ \A u \in Tasks : u < t => tasks[u].pc # "idle"

\* a lookup that makes a new lock on every call
GetTmuxLockAlwaysNew(target) ==
    [lock |-> Len(locks) + 1,
     tmux_locks |-> [tmux_locks EXCEPT ![target] = Len(locks) + 1],
     locks |-> Append(locks, FreeLock)]

\* bot.py 126-131: the lock returned, and the dict and the locks afterwards
_get_tmux_lock(target) ==
    IF tmux_locks[target] = 0
    THEN [lock |-> Len(locks) + 1,
          tmux_locks |-> [tmux_locks EXCEPT ![target] = Len(locks) + 1],
          locks |-> Append(locks, FreeLock)]
    ELSE [lock |-> tmux_locks[target], tmux_locks |-> tmux_locks, locks |-> locks]

\* async with lock, entry: taken at once when free and nobody waits, else queued
Acquire(L, l, t) ==
    IF ~L[l].locked /\ L[l].waiters = <<>>
    THEN [L EXCEPT ![l].locked = TRUE, ![l].holder = t]
    ELSE [L EXCEPT ![l].waiters = Append(@, t)]

\* an exit that leaves the lock held
ReleaseSkipped(L, l) == L

\* async with lock, exit
Release(L, l) == [L EXCEPT ![l].locked = FALSE, ![l].holder = 0]

\* async with lock, exit by an exception raised in the body
ReleaseOnRaise(L, l) == Release(L, l)

\* tmux answers for a pane only while its session runs
PaneAlive(target) == \E s \in panes : target_for(s) = target

\* TmuxBridge.capture, tmux_bridge.py 57-65: the text, or the error raised
CaptureResults(target) ==
    IF PaneAlive(target) THEN TurnTexts \cup {CaptureError} ELSE {CaptureError}

\* TmuxBridge.send_keys, tmux_bridge.py 67-80: TRUE, or FALSE when it raises
SendResults(target) == IF PaneAlive(target) THEN BOOLEAN ELSE {FALSE}

\* The first pc inside the lock, by handler.
BodyStart(kind) ==
    CASE kind = "term" -> "bridge"
      [] kind = "capture" -> "capturing"
      [] kind = "new" -> "newcap"

\* The pcs at which a coroutine is inside "async with lock".
BodyPcs == {"bridge", "polling", "capturing", "newcap"}

\* bot.py 432, 496, 231: async with self._get_tmux_lock(target), up to the
\* first suspension
EnterGate(t, kind, chat, target, probed) ==
    LET g == _get_tmux_lock(target)
        L == Acquire(g.locks, g.lock, t)
    IN  /\ tmux_locks' = g.tmux_locks
        /\ locks' = L
        /\ tasks' = [tasks EXCEPT ![t] =
                [IdleTask EXCEPT !.pc = IF L[g.lock].holder = t THEN BodyStart(kind) ELSE "waiting",
                                 !.kind = kind,
                                 !.chat = chat,
                                 !.target = target,
                                 !.lock = g.lock,
                                 !.probed = probed]]

\* asyncio.Lock.acquire resumed by a release: the first waiter takes the lock
GateGranted(t) ==
    LET l == tasks[t].lock
    IN  /\ UNCHANGED <<parkedVars, update_id, cd_call>>
        /\ tasks[t].pc = "waiting"
        /\ ~locks[l].locked
        /\ locks[l].waiters # <<>>
        /\ Head(locks[l].waiters) = t
        /\ locks' = [locks EXCEPT ![l].locked = TRUE,
                                  ![l].holder = t,
                                  ![l].waiters = Tail(@)]
        /\ tasks' = [tasks EXCEPT ![t].pc = BodyStart(tasks[t].kind)]
        /\ UNCHANGED <<projects_dir, tmux_exists, dirs, panes, sessions, disk, tmux_locks>>

(***************************************************************************)
(* The idle-wait loop of a turn as one step: the end states of the loop    *)
(* over every sequence of captures, tmux_bridge.py 135-149.                *)
(***************************************************************************)
RECURSIVE LoopOutcomes(_, _)
LoopOutcomes(S, e) ==
    IF S = {} THEN {}
    ELSE IF ~LoopGuard(e) THEN {[last |-> st.last, exit |-> "deadline"] : st \in S}
    ELSE LET stepped == {[last |-> PollLast(st.last, c),
                          stable_count |-> PollCount(st.last, st.stable_count, c)] :
                            st \in S, c \in TurnTexts}
             broke == {st \in stepped : IdleReached(st.stable_count)}
         IN  {[last |-> st.last, exit |-> "idle"] : st \in broke}
                \cup LoopOutcomes(stepped \ broke, e + 1)

\* tmux_bridge.py 130-149: the end states of the loop by the first capture
WaitTable == [first \in TurnTexts |-> LoopOutcomes({[last |-> first, stable_count |-> 0]}, 0)]

\* tmux_bridge.py 130-149 after a first capture that returned first
WaitOutcomes(first) == WaitTable[first]

(***************************************************************************)
(* _run_term, bot.py 422-468 (from handle_text in term mode, 394-418, or   *)
(* handle_term_send, 475-483).                                             *)
(***************************************************************************)
\* bot.py 422-432
TermStart(t, chat) ==
    LET S == get_session(chat)
        target == S[chat].term_target
    IN  /\ UNCHANGED <<parkedVars, cd_call>>
        /\ Received
        /\ FreeSlot(t)
        /\ sessions' = S
        /\ IF target = NoTarget \/ ~tmux_exists
           THEN UNCHANGED <<tmux_locks, locks, tasks>>
           ELSE EnterGate(t, "term", chat, target, TRUE)
        /\ UNCHANGED <<projects_dir, tmux_exists, dirs, panes, disk>>

\* bot.py 445-447: the exception leaves the lock and is reported
TermRaise(t) ==
    /\ locks' = ReleaseOnRaise(locks, tasks[t].lock)
    /\ tasks' = [tasks EXCEPT ![t] = IdleTask]
    /\ UNCHANGED <<projects_dir, tmux_exists, dirs, panes, sessions, disk, tmux_locks>>

\* a call that leaves prev_snapshot at its default
PrevSnapshotOmitted(t) == <<>>

\* bot.py 442: prev_snapshot=sess.term_snapshot, read inside the lock
PrevSnapshot(t) == sessions[tasks[t].chat].term_snapshot

\* bot.py 433-444 and tmux_bridge.py 120-128: the "Working..." message (a
\* failure is swallowed), then prev_snapshot is read, seeded when empty, and
\* the keys are sent
TermSend(t) ==
    LET target == tasks[t].target
        arg == PrevSnapshot(t)
    IN  /\ UNCHANGED <<parkedVars, update_id, cd_call>>
        /\ tasks[t].pc = "bridge"
        /\ \E c \in CaptureResults(target), sent \in SendResults(target) :
            IF sent
            THEN /\ tasks' = [tasks EXCEPT ![t].pc = "polling", ![t].iprev = Seed(arg, c)]
                 /\ UNCHANGED <<projects_dir, tmux_exists, dirs, panes, sessions, disk,
                                tmux_locks, locks>>
            ELSE TermRaise(t)

\* the conversation of another session bound to the turn's target, if any
SnapshotOwnerByTarget(t) ==
    IF \E c \in DOMAIN sessions : c # tasks[t].chat /\ sessions[c].term_target = tasks[t].target
    THEN CHOOSE c \in DOMAIN sessions : c # tasks[t].chat /\ sessions[c].term_target = tasks[t].target
    ELSE tasks[t].chat

\* bot.py 422, 448: sess is the session of the conversation that sent the turn
SnapshotOwner(t) == tasks[t].chat

\* tmux_bridge.py 130-152 and bot.py 445-448: first capture, the loop, the
\* result; the lock is left and the snapshot stored before the next suspension
TermWait(t) ==
    LET target == tasks[t].target
    IN  /\ UNCHANGED <<parkedVars, update_id, cd_call>>
        /\ tasks[t].pc = "polling"
        /\ \E first \in CaptureResults(target) :
            IF first = CaptureError
            THEN TermRaise(t)
            ELSE \E o \in WaitOutcomes(first) \cup {[last |-> CaptureError, exit |-> "raised"]} :
                IF o.exit = "raised"
                THEN TermRaise(t)
                ELSE /\ locks' = Release(locks, tasks[t].lock)
                     /\ sessions' = [sessions EXCEPT ![SnapshotOwner(t)].term_snapshot = o.last]
                     /\ tasks' = [tasks EXCEPT ![t].pc = "reply",
                                               ![t].iprev = <<>>,
                                               ![t].exit = o.exit]
                     /\ UNCHANGED <<projects_dir, tmux_exists, dirs, panes, disk, tmux_locks>>

\* bot.py 449-468: the reply, then save_session; a reply that raises skips the save
TermReply(t) ==
    /\ UNCHANGED <<parkedVars, update_id, cd_call>>
    /\ tasks[t].pc = "reply"
    /\ \E ok \in BOOLEAN :
        disk' = IF ok THEN save_session(sessions, disk, tasks[t].chat) ELSE disk
    /\ tasks' = [tasks EXCEPT ![t] = IdleTask]
    /\ UNCHANGED <<projects_dir, tmux_exists, dirs, panes, sessions, tmux_locks, locks>>

(***************************************************************************)
(* handle_term_capture, bot.py 485-501.                                    *)
(***************************************************************************)
\* bot.py 485-496
CaptureStart(t, chat) ==
    LET S == get_session(chat)
        target == S[chat].term_target
    IN  /\ UNCHANGED <<parkedVars, cd_call>>
        /\ Received
        /\ FreeSlot(t)
        /\ sessions' = S
        /\ IF target = NoTarget \/ ~tmux_exists
           THEN UNCHANGED <<tmux_locks, locks, tasks>>
           ELSE EnterGate(t, "capture", chat, target, TRUE)
        /\ UNCHANGED <<projects_dir, tmux_exists, dirs, panes, disk>>

\* bot.py 497-501: the capture, the lock left, the text or the error sent
CaptureBody(t) ==
    /\ UNCHANGED <<parkedVars, update_id, cd_call>>
    /\ tasks[t].pc = "capturing"
    /\ \E c \in CaptureResults(tasks[t].target) :
        locks' = IF c = CaptureError
                 THEN ReleaseOnRaise(locks, tasks[t].lock)
                 ELSE Release(locks, tasks[t].lock)
    /\ tasks' = [tasks EXCEPT ![t] = IdleTask]
    /\ UNCHANGED <<projects_dir, tmux_exists, dirs, panes, sessions, disk, tmux_locks>>

(***************************************************************************)
(* handle_newproject, bot.py 202-244, and ProjectsManager.create,          *)
(* projects.py 58-94.  The model types names whose slug is free, so the    *)
(* suffix loop of create (62-64) does not iterate.                         *)
(***************************************************************************)
NewNames == {"b", "B"}

\* bot.py 203-218 and projects.py 58-84: mkdir, venv, tmux new-session
NewCreate(t, chat, name) ==
    LET slug == slugify(name)
    IN  /\ UNCHANGED <<parkedVars, cd_call>>
        /\ Received
        /\ FreeSlot(t)
        /\ ~exists(slug)
        /\ \E made \in (IF tmux_exists /\ slug \notin panes THEN BOOLEAN ELSE {FALSE}) :
            IF made
            THEN /\ dirs' = dirs \cup Prefixes(Resolve(path_for(slug)))
                 /\ panes' = panes \cup {slug}
                 /\ tasks' = [tasks EXCEPT ![t] =
                        [IdleTask EXCEPT !.pc = "newkeys", !.kind = "new", !.chat = chat,
                                         !.target = target_for(slug)]]
            ELSE \* new-session failed: rmtree; tmux missing: the exception skips it
                 /\ dirs' = IF tmux_exists THEN dirs ELSE dirs \cup Prefixes(Resolve(path_for(slug)))
                 /\ UNCHANGED <<panes, tasks>>
        /\ UNCHANGED <<projects_dir, tmux_exists, sessions, disk, tmux_locks, locks>>

\* projects.py 85-94: the keys that start the agent, sent without the lock;
\* errors are swallowed
NewKeys(t) ==
    /\ UNCHANGED <<parkedVars, update_id, cd_call>>
    /\ tasks[t].pc = "newkeys"
    /\ tasks' = [tasks EXCEPT ![t].pc = "newlink"]
    /\ UNCHANGED <<projects_dir, tmux_exists, dirs, panes, sessions, disk, tmux_locks, locks>>

\* bot.py 219-231: get_me and the reply, which may raise, then the lock
NewLink(t) ==
    /\ UNCHANGED <<parkedVars, update_id, cd_call>>
    /\ tasks[t].pc = "newlink"
    /\ \E ok \in BOOLEAN :
        IF ok
        THEN EnterGate(t, "new", tasks[t].chat, tasks[t].target, FALSE)
        ELSE /\ tasks' = [tasks EXCEPT ![t] = IdleTask]
             /\ UNCHANGED <<tmux_locks, locks>>
    /\ UNCHANGED <<projects_dir, tmux_exists, dirs, panes, sessions, disk>>

\* bot.py 231-244: the captures until stable; the lock is left on both paths
\* and an exception is swallowed
NewCapture(t) ==
    /\ UNCHANGED <<parkedVars, update_id, cd_call>>
    /\ tasks[t].pc = "newcap"
    /\ \E c \in CaptureResults(tasks[t].target) :
        locks' = IF c = CaptureError
                 THEN ReleaseOnRaise(locks, tasks[t].lock)
                 ELSE Release(locks, tasks[t].lock)
    /\ tasks' = [tasks EXCEPT ![t] = IdleTask]
    /\ UNCHANGED <<projects_dir, tmux_exists, dirs, panes, sessions, disk, tmux_locks>>

(***************************************************************************)
(* A restart of the process: BotApp.__init__, bot.py 83-95.                *)
(***************************************************************************)
Restart ==
    /\ UNCHANGED <<parkedVars, update_id, cd_call>>
    /\ sessions' = <<>>
    /\ tmux_locks' = [x \in TargetStrings |-> 0]
    /\ locks' = <<>>
    /\ tasks' = [t \in Tasks |-> IdleTask]
    /\ UNCHANGED <<projects_dir, tmux_exists, dirs, panes, disk>>

(***************************************************************************)
(* One ShellSession and ShellSession.run, shell_session.py 27-171.  An     *)
(* environment is a function from keys to values; keys, values and the     *)
(* tokens of an export command are sequences of characters.                *)
(***************************************************************************)
\* ShellSession.workspace_root of the session
ShRoot == WorkspaceDir

EnvKeys == {<<"K">>, <<"J">>}

\* os.environ of the bot process, shell_session.py 38
HostEnv == [k \in {<<"K">>} |-> <<"1">>]

NoEnv == [k \in {} |-> <<>>]

\* self.env[key] = value, shell_session.py 108
EnvSet(e, k, v) == [x \in DOMAIN e \cup {k} |-> IF x = k THEN v ELSE e[x]]

\* an unset that removes nothing
EnvPopNothing(e, k) == e

\* self.env.pop(key, None), shell_session.py 114
EnvPop(e, k) == [x \in DOMAIN e \ {k} |-> e[x]]

\* The tokens of the export commands the model types; one has no "=", one
\* opens a quote.
ExportTokens ==
    {<<"K", "=", "1">>, <<"K", "=", "2">>, <<"J", "=", "1">>, <<"J">>, <<"'", "J", "=", "1">>}

MaxTokens == 2

\* " ".join(tokens)
RECURSIVE JoinTokens(_)
JoinTokens(ts) ==
    IF ts = <<>> THEN <<>>
    ELSE IF Len(ts) = 1 THEN Head(ts)
    ELSE Head(ts) \o <<" ">> \o JoinTokens(Tail(ts))

\* What follows "export " in the commands the model types; the command is
\* stripped, so something does.
ExportArgs == {JoinTokens(ts) : ts \in UNION {[1..n -> ExportTokens] : n \in 1..MaxTokens}}

\* shlex.split(rest), shell_session.py 104: the tokens between blanks, a
\* quoted stretch taken as it is; ValueError ("No closing quotation") when
\* the text ends inside a quote
RECURSIVE ShlexFrom(_, _, _, _)
ShlexFrom(t, cur, acc, quoted) ==
    IF t = <<>>
    THEN IF quoted THEN [raised |-> TRUE, parts |-> <<>>]
         ELSE [raised |-> FALSE, parts |-> IF cur = <<>> THEN acc ELSE Append(acc, cur)]
    ELSE IF Head(t) = "'" THEN ShlexFrom(Tail(t), cur, acc, ~quoted)
    ELSE IF Head(t) = " " /\ ~quoted
         THEN ShlexFrom(Tail(t), <<>>, IF cur = <<>> THEN acc ELSE Append(acc, cur), FALSE)
    ELSE ShlexFrom(Tail(t), Append(cur, Head(t)), acc, quoted)

shlex_split(rest) == ShlexFrom(rest, <<>>, <<>>, FALSE)

\* "=" in part
HasEq(part) == \E i \in 1..Len(part) : part[i] = "="

\* part.split("=", 1)
SplitKey(part) ==
    LET i == CHOOSE i \in 1..Len(part) :
                part[i] = "=" /\ \A j \in 1..(i - 1) : part[j] # "="
    IN  SubSeq(part, 1, i - 1)

SplitValue(part) ==
    LET i == CHOOSE i \in 1..Len(part) :
                part[i] = "=" /\ \A j \in 1..(i - 1) : part[j] # "="
    IN  SubSeq(part, i + 1, Len(part))

\* shell_session.py 104-109: the loop over the tokens; env afterwards and
\* the token the loop stopped at, <<>> when it ran through
RECURSIVE ExportLoop(_, _)
ExportLoop(e, parts) ==
    IF parts = <<>> THEN [env |-> e, invalid |-> <<>>]
    ELSE IF ~HasEq(Head(parts)) THEN [env |-> e, invalid |-> Head(parts)]
    ELSE ExportLoop(EnvSet(e, SplitKey(Head(parts)), SplitValue(Head(parts))), Tail(parts))

\* The files that hold a script, while their directory exists.
ScriptFiles == {WorkspaceDir \o <<"env.sh">>, <<"etc", "profile">>}

\* Path.exists(), shell_session.py 61
FileExists(D, p) ==
    \/ ExistsDir(D, p)
    \/ Resolve(p) \in ScriptFiles /\ ExistsDir(D, Parent(Resolve(p)))

\* The arguments of source the model types.
SourceArgs ==
    {<<"env.sh">>, <<"gone.sh">>, <<"..", "etc", "profile">>, <<"/", "etc", "profile">>,
     <<"/", "etc", "gone">>}

\* The environments env -0 of the subshell prints; none when the script
\* ended the subshell before env ran.
CapturedEnvs == {NoEnv, [k \in {<<"J">>} |-> <<"2">>]}

\* The arguments of cd the model types.
RunCdTargets == {<<"sub">>, <<"..">>, <<"nope">>, <<"/", "etc">>}

\* The commands the model types, after strip() and the prefix tests of
\* shell_session.py 126-146.
Commands ==
    {[op |-> "cd", arg |-> t] : t \in RunCdTargets}
        \cup {[op |-> "cd-bare", arg |-> <<>>]}
        \cup {[op |-> "source", arg |-> f] : f \in SourceArgs}
        \cup {[op |-> "export", arg |-> a] : a \in ExportArgs}
        \cup {[op |-> "unset", arg |-> k] : k \in EnvKeys}
        \cup {[op |-> "exec", arg |-> <<>>]}

NoCommand == [op |-> "none", arg |-> <<>>]

NoProc == [spawned |-> FALSE]

NoRet == [code |-> -1, msg |-> "none"]

\* the ShellSession as change_dir and the fix-up of run read it
ShellSelf == [cwd |-> sh_cwd, workspace_root |-> ShRoot]

RunParked ==
    /\ rpc = "parked"
    /\ sh_cmd = NoCommand
    /\ sh_cwd = <<>>
    /\ sh_env = NoEnv
    /\ sh_proc = NoProc
    /\ sh_ret = NoRet
    /\ reply = "none"

\* shell_session.py 36-38: a session made at its workspace root
RunInit ==
    /\ rpc = "idle"
    /\ sh_cmd = NoCommand
    /\ sh_cwd = ShRoot
    /\ sh_env = HostEnv
    /\ sh_proc = NoProc
    /\ sh_ret = NoRet
    /\ reply = "none"

\* shell_session.py 118: run(command) is called
RunCall(cmd) ==
    /\ rpc = "idle"
    /\ rpc' = "entered"
    /\ sh_cmd' = cmd
    /\ sh_ret' = NoRet
    /\ reply' = "none"
    /\ UNCHANGED <<sh_cwd, sh_env, sh_proc, dirs>>
    /\ UNCHANGED <<diffVars, idleVars, appRest, keyVars>>

\* shell_session.py 119-134 and 45-51: the fix-up of cwd, then cd
RunCd ==
    LET s0 == [ShellSelf EXCEPT !.cwd = RunCwd(ShellSelf)]
        arg == IF sh_cmd.op = "cd-bare" THEN <<"/">> \o ShRoot ELSE sh_cmd.arg
        r == change_dir(s0, arg)
    IN  /\ rpc = "entered"
        /\ sh_cmd.op \in {"cd", "cd-bare"}
        /\ rpc' = "idle"
        /\ sh_cwd' = r.cwd
        /\ sh_ret' = IF r.ok THEN [code |-> 0, msg |-> "cwd"]
                             ELSE [code |-> 1, msg |-> "No such directory"]
        /\ reply' = "sent"
        /\ UNCHANGED <<sh_cmd, sh_env, sh_proc, dirs>>
        /\ UNCHANGED <<diffVars, idleVars, appRest, keyVars>>

\* the subprocess gets the workspace root as its directory
ProcCwdRoot(cwd0) == ShRoot

\* shell_session.py 73 and 153: cwd=str(self.cwd)
ProcCwd(cwd0) == cwd0

\* tests that look for the file before they look at the workspace
SourceCheckExistsFirst(file_path) ==
    IF ~FileExists(dirs, file_path) THEN "No such file"
    ELSE IF ~_is_within(file_path, ShRoot) THEN "Refusing to source outside workspace"
    ELSE ""

\* shell_session.py 59-62: the message of the test that fails, "" when none does
SourceCheck(file_path) ==
    IF ~_is_within(file_path, ShRoot) THEN "Refusing to source outside workspace"
    ELSE IF ~FileExists(dirs, file_path) THEN "No such file"
    ELSE ""

\* shell_session.py 119-124, 136-143 and 53-77: the fix-up of cwd, then
\* apply_source up to the subprocess
RunSource ==
    LET cwd0 == RunCwd(ShellSelf)
        file_path == TargetPath(cwd0, sh_cmd.arg)
        msg == SourceCheck(file_path)
    IN  /\ rpc = "entered"
        /\ sh_cmd.op = "source"
        /\ sh_cwd' = cwd0
        /\ IF msg # ""
           THEN /\ rpc' = "idle"
                /\ sh_ret' = [code |-> 1, msg |-> msg]
                /\ reply' = "sent"
                /\ UNCHANGED sh_proc
           ELSE /\ rpc' = "sourcing"
                /\ sh_proc' = [spawned |-> TRUE, cwd |-> ProcCwd(cwd0), env |-> sh_env]
                /\ UNCHANGED <<sh_ret, reply>>
        /\ UNCHANGED <<sh_cmd, sh_env, dirs>>
        /\ UNCHANGED <<diffVars, idleVars, appRest, keyVars>>

\* a source that merges the captured environment over the session's
SourceEnvMerged(e, merged) ==
    [x \in DOMAIN e \cup DOMAIN merged |-> IF x \in DOMAIN merged THEN merged[x] ELSE e[x]]

\* shell_session.py 93-94: if merged: self.env = merged
SourceEnv(e, merged) == IF merged # NoEnv THEN merged ELSE e

\* shell_session.py 78-95 and 136-143: the subshell has exited with returncode
\* and printed captured
SourceExit(returncode, merged) ==
    /\ rpc = "sourcing"
    /\ rpc' = "idle"
    /\ sh_proc' = NoProc
    /\ reply' = "sent"
    /\ IF returncode # 0
       THEN /\ sh_ret' = [code |-> 1, msg |-> "source failed"]
            /\ UNCHANGED sh_env
       ELSE /\ sh_ret' = [code |-> 0, msg |-> "Applied"]
            /\ sh_env' = SourceEnv(sh_env, merged)
    /\ UNCHANGED <<sh_cmd, sh_cwd, dirs>>
    /\ UNCHANGED <<diffVars, idleVars, appRest, keyVars>>

\* shell_session.py 97-116: env afterwards, the error returned, "" for None,
\* and whether shlex.split raised
_apply_export_or_unset(e, cmd) ==
    IF cmd.op = "export"
    THEN IF cmd.arg = <<>>
         THEN [env |-> e, err |-> "Usage: export KEY=VALUE", raised |-> FALSE]
         ELSE LET sp == shlex_split(cmd.arg)
                  l == ExportLoop(e, sp.parts)
              IN  IF sp.raised THEN [env |-> e, err |-> "", raised |-> TRUE]
                  ELSE [env |-> l.env,
                        err |-> IF l.invalid = <<>> THEN "" ELSE "Invalid export",
                        raised |-> FALSE]
    ELSE IF cmd.op = "unset"
    THEN IF cmd.arg = <<>> THEN [env |-> e, err |-> "Usage: unset KEY", raised |-> FALSE]
         ELSE [env |-> EnvPop(e, cmd.arg), err |-> "", raised |-> FALSE]
    ELSE [env |-> e, err |-> "", raised |-> FALSE]

\* what run leaves behind when an exception ends it
RunRaised == [code |-> -2, msg |-> "ValueError"]

\* shell_session.py 119-124 and 145-157: the fix-up of cwd, export or unset
\* applied, and, when that gave no error, the command handed to bash; and
\* bot.py 353-362: the reply when run returned, none when it raised
RunCommand ==
    LET cwd0 == RunCwd(ShellSelf)
        a == _apply_export_or_unset(sh_env, sh_cmd)
    IN  /\ rpc = "entered"
        /\ sh_cmd.op \in {"export", "unset", "exec"}
        /\ sh_cwd' = cwd0
        /\ sh_env' = a.env
        /\ IF a.raised
           THEN /\ rpc' = "idle"
                /\ sh_ret' = RunRaised
                /\ UNCHANGED <<sh_proc, reply>>
           ELSE IF a.err # ""
           THEN /\ rpc' = "idle"
                /\ sh_ret' = [code |-> 1, msg |-> a.err]
                /\ reply' = "sent"
                /\ UNCHANGED sh_proc
           ELSE /\ rpc' = "running"
                /\ sh_proc' = [spawned |-> TRUE, cwd |-> ProcCwd(cwd0), env |-> a.env]
                /\ UNCHANGED <<sh_ret, reply>>
        /\ UNCHANGED <<sh_cmd, dirs>>
        /\ UNCHANGED <<diffVars, idleVars, appRest, keyVars>>

\* What a delegated command removes: nothing, or the directory sub.
ExecRemoves == {<<>>, WorkspaceDir \o <<"sub">>}

\* shell_session.py 159-170: communicate() returned before the timeout
ExecExit(returncode, removed) ==
    /\ rpc = "running"
    /\ removed # <<>> => sh_cmd.op = "exec"
    /\ rpc' = "idle"
    /\ sh_proc' = NoProc
    /\ sh_ret' = [code |-> returncode, msg |-> "output"]
    /\ reply' = "sent"
    /\ dirs' = IF removed = <<>> THEN dirs ELSE RemoveTree(dirs, removed)
    /\ UNCHANGED <<sh_cmd, sh_cwd, sh_env>>
    /\ UNCHANGED <<diffVars, idleVars, appRest, keyVars>>

\* shell_session.py 161-168: asyncio.TimeoutError, the process is killed
ExecTimeout ==
    /\ rpc = "running"
    /\ rpc' = "idle"
    /\ sh_proc' = NoProc
    /\ sh_ret' = [code |-> 124, msg |-> "timeout"]
    /\ reply' = "sent"
    /\ UNCHANGED <<sh_cmd, sh_cwd, sh_env, dirs>>
    /\ UNCHANGED <<diffVars, idleVars, appRest, keyVars>>

\* shell_session.py 40-43: reset()
ShReset ==
    /\ rpc = "idle"
    /\ sh_cmd' = [op |-> "reset", arg |-> <<>>]
    /\ sh_cwd' = ShRoot
    /\ sh_env' = HostEnv
    /\ sh_ret' = NoRet
    /\ reply' = "none"
    /\ UNCHANGED <<rpc, sh_proc, dirs>>
    /\ UNCHANGED <<diffVars, idleVars, appRest, keyVars>>

RunNext ==
    \/ \E cmd \in Commands : RunCall(cmd)
    \/ RunCd
    \/ RunSource
    \/ \E returncode \in {0, 1}, merged \in CapturedEnvs : SourceExit(returncode, merged)
    \/ RunCommand
    \/ \E returncode \in {0, 1}, removed \in ExecRemoves : ExecExit(returncode, removed)
    \/ ExecTimeout
    \/ ShReset

(***************************************************************************)
(* TmuxBridge.send_keys, tmux_bridge.py 67-80.  A text is a sequence of    *)
(* characters, "\n" the line break; a keystroke is what one tmux send-keys *)
(* call was given: a line, C-j or Enter.                                   *)
(***************************************************************************)
KeyChars == {"x", "\n"}

KeyCj == <<"C-j">>

KeyEnter == <<"Enter">>

\* str.splitlines(): a line ends at a line break, and a text that ends with
\* a line break has no empty last line
RECURSIVE SplitFrom(_, _, _)
SplitFrom(t, cur, acc) ==
    IF t = <<>> THEN (IF cur = <<>> THEN acc ELSE Append(acc, cur))
    ELSE IF Head(t) = "\n" THEN SplitFrom(Tail(t), <<>>, Append(acc, cur))
    ELSE SplitFrom(Tail(t), Append(cur, Head(t)), acc)

splitlines(t) == SplitFrom(t, <<>>, <<>>)

KeysParked ==
    /\ kpc = "parked"
    /\ ktext = <<>>
    /\ send_enter = FALSE
    /\ kpart = 0
    /\ keys = <<>>

\* tmux_bridge.py 67-69: send_keys(text, send_enter) is called
KeysInit ==
    /\ kpc = "part"
    /\ \E t \in Strs(KeyChars, MaxLen) : ktext = splitlines(t)
    /\ send_enter \in BOOLEAN
    /\ kpart = 1
    /\ keys = <<>>

\* tmux_bridge.py 73-76: C-j is sent after every part
NewlineAfterPart(i, n) == TRUE

\* tmux_bridge.py 69-72: send-keys part; rc # 0 raises
KeysPart(rc) ==
    /\ kpc = "part"
    /\ kpart <= Len(ktext)
    /\ IF rc = 0
       THEN /\ keys' = Append(keys, ktext[kpart])
            /\ IF NewlineAfterPart(kpart, Len(ktext))
               THEN kpc' = "newline" /\ UNCHANGED kpart
               ELSE kpc' = "part" /\ kpart' = kpart + 1
       ELSE /\ kpc' = "raised"
            /\ UNCHANGED <<keys, kpart>>
    /\ UNCHANGED <<ktext, send_enter>>
    /\ UNCHANGED <<diffVars, idleVars, appVars, runVars>>

\* tmux_bridge.py 73-76: send-keys C-j; rc # 0 raises
KeysNewline(rc) ==
    /\ kpc = "newline"
    /\ IF rc = 0
       THEN /\ keys' = Append(keys, KeyCj)
            /\ kpc' = "part"
            /\ kpart' = kpart + 1
       ELSE /\ kpc' = "raised"
            /\ UNCHANGED <<keys, kpart>>
    /\ UNCHANGED <<ktext, send_enter>>
    /\ UNCHANGED <<diffVars, idleVars, appVars, runVars>>

\* tmux_bridge.py 77-80: after the loop, send-keys Enter when send_enter
KeysEnter(rc) ==
    /\ kpc = "part"
    /\ kpart > Len(ktext)
    /\ IF ~send_enter
       THEN kpc' = "done" /\ UNCHANGED keys
       ELSE IF rc = 0
       THEN kpc' = "done" /\ keys' = Append(keys, KeyEnter)
       ELSE kpc' = "raised" /\ UNCHANGED keys
    /\ UNCHANGED <<ktext, send_enter, kpart>>
    /\ UNCHANGED <<diffVars, idleVars, appVars, runVars>>

KeysNext ==
    \/ \E rc \in {0, 1} : KeysPart(rc)
    \/ \E rc \in {0, 1} : KeysNewline(rc)
    \/ \E rc \in {0, 1} : KeysEnter(rc)

(***************************************************************************)
(* Loading a record, bot.py 100-114 and 68-79.  A file of the sessions     *)
(* directory is unreadable, not JSON, a JSON list, or a JSON object whose  *)
(* four fields are each a text, null, absent or a number.  NotText stands  *)
(* for the number, Absent for a key the object does not have; null is the  *)
(* empty value of the field.                                               *)
(***************************************************************************)
NotText == "<5>"

Absent == "<absent>"

FileKinds == {"unreadable", "notjson", "list", "object"}

\* the values of "mode", "cwd", "term_target" and "term_snapshot" in a file
FileModes == {"shell", "term", Absent, NotText}

FileCwds == {WorkspaceDir \o <<"sub">>, WorkspaceDir \o <<"gone">>, <<Absent>>, <<NotText>>}

FileTargets == {NoTarget, target_for("a"), NotText}

FileSnapshots == {<<>>, <<"a">>, <<NotText>>}

NoFields == [mode |-> Absent, cwd |-> <<Absent>>, term_target |-> NoTarget, term_snapshot |-> <<>>]

Files ==
    {[kind |-> k, data |-> NoFields] : k \in FileKinds \ {"object"}}
        \cup {[kind |-> "object",
               data |-> [mode |-> m, cwd |-> c, term_target |-> t, term_snapshot |-> s]] :
                m \in FileModes, c \in FileCwds, t \in FileTargets, s \in FileSnapshots}

\* bot.py 106-107: whether path.read_text, json.loads or from_json raises.
\* A list has no get; Path(5) is a TypeError; nothing tests the other fields.
LoadRaises(file) ==
    \/ file.kind \in {"unreadable", "notjson", "list"}
    \/ file.data.cwd = <<NotText>>

\* bot.py 68-79 on the object of a file: the defaults of data.get, the test
\* of cwd, and the fields taken as they are
FromFile(data) ==
    [NewSession EXCEPT
        !.mode = IF data.mode = Absent THEN "shell" ELSE data.mode,
        !.cwd = IF data.cwd # <<Absent>> /\ ExistsDir(dirs, data.cwd) THEN data.cwd
                ELSE WorkspaceDir,
        !.term_target = data.term_target,
        !.term_snapshot = data.term_snapshot]

\* bot.py 100-114: self.sessions after get_session(chat), the files as they are
GetSessionFromFile(chat) ==
    IF chat \in DOMAIN sessions THEN sessions
    ELSE IF chat \in DOMAIN disk /\ ~LoadRaises(disk[chat])
         THEN (chat :> FromFile(disk[chat].data)) @@ sessions
    ELSE (chat :> NewSession) @@ sessions

\* bot.py 342-349: /status, a handler that loads the session and reads it
HandleStatus(chat) ==
    /\ UNCHANGED parkedVars
    /\ cd_call' = NoCall
    /\ Received
    /\ sessions' = GetSessionFromFile(chat)
    /\ UNCHANGED <<projects_dir, tmux_exists, dirs, panes, disk, tmux_locks, locks, tasks>>

LoadNext ==
    \/ \E chat \in Chats : HandleStatus(chat)
    \/ Restart

(***************************************************************************)
(* The allow list and the registered handlers, bot.py 133-134, 504-513,    *)
(* 563-588.  A start parameter is a sequence of characters, empty when     *)
(* /start has no argument.                                                 *)
(***************************************************************************)
\* The users that send updates: one on the allow list, one not.
Users == {"owner", "guest"}

\* config.py 27, 49-51: settings.allowed_user_ids, never empty
allowed_user_ids == {"owner"}

\* bot.py 133-134
authorized(user_id) == user_id \in allowed_user_ids

\* bot.py 504-513: the "Unauthorized user." reply
Unauthorized ==
    /\ UNCHANGED parkedVars
    /\ cd_call' = NoCall
    /\ Received
    /\ UNCHANGED <<projects_dir, tmux_exists, dirs, panes, sessions, disk,
                   tmux_locks, locks, tasks>>

\* bot.py 504-513: inner(update, context) of the wrapped handler
require_auth(user_id, handler) ==
    IF ~authorized(user_id) THEN Unauthorized ELSE handler

\* The arguments of /start the model types.
StartParams ==
    {<<>>, <<"p", "_">>, <<"p", "_", "a">>, <<"p", "_", "b">>,
     <<"p", "_", "A">>, <<"h", "i">>}

\* the characters of a parameter as the string they spell
RECURSIVE JoinChars(_)
JoinChars(cs) == IF cs = <<>> THEN "" ELSE Head(cs) \o JoinChars(Tail(cs))

\* bot.py 163: param.startswith("p_")
IsProjectLink(param) == Len(param) >= 2 /\ SubSeq(param, 1, 2) = <<"p", "_">>

\* bot.py 154-181
HandleStart(chat, param) ==
    LET slug == JoinChars(SubSeq(param, 3, Len(param)))
        S == get_session(chat)
        S1 == [S EXCEPT ![chat].cwd = path_for(slug),
                        ![chat].workspace_root = path_for(slug),
                        ![chat].term_target = target_for(slug),
                        ![chat].mode = "term"]
    IN  /\ UNCHANGED parkedVars
        /\ cd_call' = NoCall
        /\ Received
        /\ IF ~IsProjectLink(param) \/ slug = "" \/ ~exists(slug)
           THEN UNCHANGED <<sessions, disk>>
           ELSE /\ sessions' = S1
                /\ disk' = save_session(S1, disk, chat)
        /\ UNCHANGED <<projects_dir, tmux_exists, dirs, panes, tmux_locks, locks, tasks>>

\* bot.py 563-588: the handler an update of this user is dispatched to
Dispatch(user_id) ==
    \/ \E chat \in Chats, param \in StartParams : HandleStart(chat, param)
    \/ \E chat \in Chats, mode \in {"shell", "term"} :
          require_auth(user_id, HandleMode(chat, mode))
    \/ \E chat \in Chats, arg \in OpenArgs :
          require_auth(user_id, HandleBindProject(chat, arg))
    \/ \E chat \in Chats : require_auth(user_id, HandleReset(chat))

AuthNext == \E user_id \in Users : Dispatch(user_id)

(***************************************************************************)
(* Initial states and specifications.                                      *)
(***************************************************************************)
BaseDirs ==
    {<<>>, <<"etc">>, <<"srv">>, OutsideProjectsDir,
     WorkspaceDir, WorkspaceDir \o <<"sub">>, DefaultProjectsDir}

AppParked ==
    /\ projects_dir = DefaultProjectsDir
    /\ tmux_exists = FALSE
    /\ dirs = {}
    /\ panes = {}
    /\ sessions = <<>>
    /\ disk = <<>>
    /\ tmux_locks = [x \in TargetStrings |-> 0]
    /\ locks = <<>>
    /\ tasks = [t \in Tasks |-> IdleTask]
    /\ update_id = 0
    /\ cd_call = NoCall

InitDiff == DiffInit /\ IdleParked /\ AppParked /\ RunParked /\ KeysParked

DiffNext == Diff

SpecDiff == InitDiff /\ [][DiffNext]_vars

InitIdle == IdleInit /\ DiffParked /\ AppParked /\ RunParked /\ KeysParked

SpecIdle == InitIdle /\ [][IdleNext]_vars

\* The event loop resumes a coroutine whose awaited call has completed.
FairSpecIdle == SpecIdle /\ WF_vars(IdleNext)

\* The bot after construction, project "a" made by an earlier run; its tmux
\* session runs or is gone.
Init ==
    /\ DiffParked
    /\ IdleParked
    /\ RunParked
    /\ KeysParked
    /\ projects_dir = DefaultProjectsDir
    /\ tmux_exists \in BOOLEAN
    /\ dirs = BaseDirs \cup {path_for("a"), path_for("a") \o <<"sub">>}
    /\ panes \in (IF tmux_exists THEN {{"a"}, {}} ELSE {{}})
    /\ sessions = <<>>
    /\ disk = <<>>
    /\ tmux_locks = [x \in TargetStrings |-> 0]
    /\ locks = <<>>
    /\ tasks = [t \in Tasks |-> IdleTask]
    /\ update_id = 0
    /\ cd_call = NoCall

Next ==
    \/ \E t \in Tasks, chat \in Chats : TermStart(t, chat)
    \/ \E t \in Tasks : GateGranted(t)
    \/ \E t \in Tasks : TermSend(t)
    \/ \E t \in Tasks : TermWait(t)
    \/ \E t \in Tasks : TermReply(t)
    \/ \E t \in Tasks, chat \in Chats : CaptureStart(t, chat)
    \/ \E t \in Tasks : CaptureBody(t)
    \/ \E t \in Tasks, chat \in Chats, name \in NewNames : NewCreate(t, chat, name)
    \/ \E t \in Tasks : NewKeys(t)
    \/ \E t \in Tasks : NewLink(t)
    \/ \E t \in Tasks : NewCapture(t)
    \/ \E chat \in Chats, arg \in OpenArgs : HandleBindProject(chat, arg)
    \/ \E chat \in Chats, mode \in {"shell", "term"} : HandleMode(chat, mode)

Spec == Init /\ [][Next]_vars

\* bot.py 59-66: the record an earlier run of the bot saved for a conversation
\* that was bound to project "a" and had made a turn
EarlierRecord ==
    [mode |-> "term",
     cwd |-> path_for("a"),
     term_target |-> target_for("a"),
     term_snapshot |-> <<"a">>]

\* The bot after construction with projects "a" and "b" on disk, under the
\* default PROJECTS_DIR or one outside the workspace; no records, or, under
\* the default, the record of conversation c1 from an earlier run.
InitShell ==
    /\ DiffParked
    /\ IdleParked
    /\ RunParked
    /\ KeysParked
    /\ projects_dir \in {DefaultProjectsDir, OutsideProjectsDir}
    /\ tmux_exists = TRUE
    /\ dirs = BaseDirs \cup {path_for("a"), path_for("a") \o <<"sub">>, path_for("b")}
    /\ panes = {"a", "b"}
    /\ sessions = <<>>
    /\ \/ disk = <<>>
       \/ projects_dir = DefaultProjectsDir /\ disk = [c \in {"c1"} |-> EarlierRecord]
    /\ tmux_locks = [x \in TargetStrings |-> 0]
    /\ locks = <<>>
    /\ tasks = [t \in Tasks |-> IdleTask]
    /\ update_id = 0
    /\ cd_call = NoCall

ShellNext ==
    \/ \E chat \in Chats, target \in CdTargets : ShellCd(chat, target, FALSE)
    \/ \E chat \in Chats : ShellCd(chat, <<>>, TRUE)
    \/ \E chat \in Chats, removed \in RmTargets : ShellCommand(chat, removed)
    \/ \E chat \in Chats : HandleReset(chat)
    \/ \E chat \in Chats, arg \in OpenArgs : HandleBindProject(chat, arg)
    \/ \E slug \in Slugs, removed \in BOOLEAN : DeleteProject(slug, removed)
    \/ Restart

SpecShell == InitShell /\ [][ShellNext]_vars

\* One ShellSession at its workspace root, the bot's own state parked except
\* for the directories.
InitRun ==
    /\ DiffParked
    /\ IdleParked
    /\ KeysParked
    /\ RunInit
    /\ projects_dir = DefaultProjectsDir
    /\ tmux_exists = FALSE
    /\ dirs = BaseDirs
    /\ panes = {}
    /\ sessions = <<>>
    /\ disk = <<>>
    /\ tmux_locks = [x \in TargetStrings |-> 0]
    /\ locks = <<>>
    /\ tasks = [t \in Tasks |-> IdleTask]
    /\ update_id = 0
    /\ cd_call = NoCall

SpecRun == InitRun /\ [][RunNext]_vars

\* The event loop resumes run when its synchronous part can go on, and
\* asyncio.wait_for ends the wait for a delegated command at the timeout when
\* the command has not ended it.  Nothing bounds the subshell of source.
FairSpecRun ==
    /\ SpecRun
    /\ WF_vars(RunCd)
    /\ WF_vars(RunSource)
    /\ WF_vars(RunCommand)
    /\ WF_vars(ExecTimeout)

InitKeys == KeysInit /\ DiffParked /\ IdleParked /\ AppParked /\ RunParked

SpecKeys == InitKeys /\ [][KeysNext]_vars

\* The bot after construction over a sessions directory that holds a file for
\* conversation c1, and for c2 none or the record of an earlier run.
InitLoad ==
    /\ DiffParked
    /\ IdleParked
    /\ RunParked
    /\ KeysParked
    /\ projects_dir = DefaultProjectsDir
    /\ tmux_exists = TRUE
    /\ dirs = BaseDirs \cup {path_for("a")}
    /\ panes = {"a"}
    /\ sessions = <<>>
    /\ \E f \in Files :
        \/ disk = [c \in {"c1"} |-> f]
        \/ disk = [c \in {"c1", "c2"} |-> IF c = "c1" THEN f ELSE [kind |-> "object", data |-> EarlierRecord]]
    /\ tmux_locks = [x \in TargetStrings |-> 0]
    /\ locks = <<>>
    /\ tasks = [t \in Tasks |-> IdleTask]
    /\ update_id = 0
    /\ cd_call = NoCall

SpecLoad == InitLoad /\ [][LoadNext]_vars

\* The bot after construction with projects "a" and "b" on disk and no
\* records, or the record of conversation c1 from an earlier run.
InitAuth ==
    /\ DiffParked
    /\ IdleParked
    /\ RunParked
    /\ KeysParked
    /\ projects_dir = DefaultProjectsDir
    /\ tmux_exists = TRUE
    /\ dirs = BaseDirs \cup {path_for("a"), path_for("b")}
    /\ panes = {"a", "b"}
    /\ sessions = <<>>
    /\ disk \in {<<>>, [c \in {"c1"} |-> EarlierRecord]}
    /\ tmux_locks = [x \in TargetStrings |-> 0]
    /\ locks = <<>>
    /\ tasks = [t \in Tasks |-> IdleTask]
    /\ update_id = 0
    /\ cd_call = NoCall

SpecAuth == InitAuth /\ [][AuthNext]_vars

(***************************************************************************)
(* Claims on the overlap diff, under SpecDiff.                             *)
(***************************************************************************)
\* The k of the contract: the largest k in 0..min(len) with prev[-k:] = new[:k].
MaxOverlap(p, n) ==
    CHOOSE k \in 0..Min(Len(p), Len(n)) :
        /\ Suffix(p, k) = Prefix(n, k)
        /\ \A j \in (k + 1)..Min(Len(p), Len(n)) : Suffix(p, j) # Prefix(n, j)

\* C3: _increment(previous, current) is current without its first k
\* characters, k the largest overlap of previous' tail with current's head.
C3_DiffDropsMaximalOverlap ==
    dpc = "out" => out = Drop(new, MaxOverlap(prev, new))

\* a case with two overlaps, the larger one proper
C3_Witness ==
    /\ dpc = "out"
    /\ MaxOverlap(prev, new) >= 2
    /\ MaxOverlap(prev, new) < Min(Len(prev), Len(new))
    /\ \E j \in 1..(MaxOverlap(prev, new) - 1) : Suffix(prev, j) = Prefix(new, j)
    /\ out # <<>>

\* C4: diff(A, A+B) = B, diff("", X) = X, diff(P, P) = "".
C4_DiffOfAppendIsAppended ==
    dpc = "out" =>
        /\ \A B \in Strs(Chars, Len(new)) : new = prev \o B => out = B
        /\ (prev = <<>> => out = new)
        /\ (prev = new => out = <<>>)

\* A+B where a shorter overlap exists as well: A = "aa", B = "ab"
C4_Witness ==
    /\ dpc = "out"
    /\ prev = <<"a", "a">>
    /\ new = <<"a", "a", "a", "b">>
    /\ out = <<"a", "b">>

(***************************************************************************)
(* Claims on send_and_wait_idle, under SpecIdle and FairSpecIdle.          *)
(***************************************************************************)
\* C5: the call ends on every pane behaviour; once the deadline has passed
\* no further capture is made and no error is raised, and the snapshot
\* returned is the text of the most recent capture.
C5_IdleWaitEndsAtDeadline ==
    /\ <>(ipc \in {"done", "failed"})
    /\ [][(ipc \in {"loop", "exit"} /\ elapsed >= TimeoutTicks)
            => (ipc' \in {"exit", "done"} /\ captured' = captured /\ elapsed' = elapsed)]_vars
    /\ [](ipc = "done" => result.snapshot = captured)

\* the deadline ended a loop on a pane that never settled
C5_Witness ==
    /\ ipc = "done"
    /\ elapsed = TimeoutTicks
    /\ stable_count = 0
    /\ _looks_working(last)
    /\ result.snapshot = captured

\* C6: when every capture after the send is the same text without a busy
\* marker, the loop is left after exactly IdleThreshold polls, before the
\* deadline.
C6_SteadyPaneLeavesAtThreshold ==
    /\ (ipc = "loop" /\ steady) => (stable_count = elapsed /\ elapsed < IdleThreshold)
    /\ (ipc \in {"exit", "done"} /\ steady) =>
            /\ stable_count = IdleThreshold
            /\ elapsed = IdleThreshold
            /\ elapsed < TimeoutTicks

C6_Witness ==
    /\ ipc = "done"
    /\ steady
    /\ elapsed = IdleThreshold
    /\ result.snapshot # <<>>

\* C7 as stated: on a turn with an empty lastSnapshot the increment is the
\* whole final capture.
C7_FirstTurnIncrementIsWholeCapture ==
    (ipc = "done" /\ iarg = <<>>) => result.increment = result.snapshot

\* C7 amended: on a turn with an empty lastSnapshot the baseline is the text
\* captured before the keys are sent (empty when that capture fails), and the
\* increment is the final capture without its maximal overlap with that
\* baseline; it is the whole final capture when the baseline is empty.
C7_FirstTurnIncrementFromSeed ==
    (ipc = "done" /\ iarg = <<>>) =>
        /\ seedcap # NotCaptured
        /\ seedcap \in {CaptureError, <<>>} => result.increment = result.snapshot
        /\ seedcap \notin {CaptureError, <<>>} =>
                result.increment = Drop(result.snapshot, MaxOverlap(seedcap, result.snapshot))

\* the pane showed the same text before and after the send: nothing is new
C7_Witness ==
    /\ ipc = "done"
    /\ iarg = <<>>
    /\ seedcap = <<"a">>
    /\ result.snapshot = <<"a">>
    /\ result.increment = <<>>

(***************************************************************************)
(* Claims on the per-target locks and the snapshot, under Spec.            *)
(***************************************************************************)
\* the coroutines inside "async with" on the lock of target
InBody(target) == {t \in Tasks : tasks[t].pc \in BodyPcs /\ tasks[t].target = target}

\* C1: for every target at most one body guarded by the target's lock runs
\* at a time, whatever the interleaving of turns, /term_capture captures and
\* startup captures; and the lookup gives the same lock for the same target
\* on every call, the creating one included: a coroutine in or before a body
\* has the lock the dict holds for its target, and an entry never changes.
C1_OneBodyPerTarget ==
    /\ [](\A target \in TargetStrings : Cardinality(InBody(target)) <= 1)
    /\ [](\A t \in Tasks : tasks[t].pc \in BodyPcs \cup {"waiting"} =>
                /\ tasks[t].lock # 0
                /\ tasks[t].lock = tmux_locks[tasks[t].target])
    /\ [][\A target \in TargetStrings :
            tmux_locks[target] # 0 => tmux_locks'[target] = tmux_locks[target]]_vars

\* a turn is in its body while a capture of the same target waits at the lock
C1_Witness ==
    \E t, u \in Tasks :
        /\ t # u
        /\ tasks[t].kind = "term" /\ tasks[t].pc = "polling"
        /\ tasks[u].kind = "capture" /\ tasks[u].pc = "waiting"
        /\ tasks[u].target = tasks[t].target
        /\ tasks[u].lock = tasks[t].lock

\* the turn of conversation chat that stores its snapshot in this step
StoresSnapshot(chat) ==
    \E t \in Tasks :
        /\ tasks[t].kind = "term"
        /\ tasks[t].chat = chat
        /\ tasks[t].pc = "polling"
        /\ tasks'[t].pc = "reply"

\* C8: the snapshot of a conversation changes only in the step that ends,
\* without an error, the wait of a turn the same conversation sent; failed
\* turns, turns of other conversations on the same target, /term_capture and
\* /mode leave it as it is.
C8_SnapshotChangesOnlyByOwnTurn ==
    [][\A chat \in Chats :
        LastSnapshot(chat)' # LastSnapshot(chat) => StoresSnapshot(chat)]_vars

\* two conversations on one target; the turn of one stored its snapshot and
\* the snapshot of the other is still empty
C8_Witness ==
    \E c, d \in DOMAIN sessions :
        /\ c # d
        /\ sessions[c].term_target # NoTarget
        /\ sessions[d].term_target = sessions[c].term_target
        /\ sessions[c].term_snapshot # <<>>
        /\ sessions[d].term_snapshot = <<>>

\* C9: the lock of a target is left on every way out of the body: normal
\* completion, an error raised by send or capture, and the deadline of the
\* wait.  A lock that is held is held by a coroutine inside its body, and a
\* coroutine outside a body holds no lock.
C9_LockHeldOnlyInsideBody ==
    /\ \A l \in 1..Len(locks) :
        locks[l].locked =>
            /\ locks[l].holder \in Tasks
            /\ tasks[locks[l].holder].pc \in BodyPcs
            /\ tasks[locks[l].holder].lock = l
    /\ \A t \in Tasks :
        tasks[t].pc \notin BodyPcs => \A l \in 1..Len(locks) : locks[l].holder # t

\* a turn whose wait ended at the deadline is at its reply, and the lock of
\* its target is free or taken by another coroutine
C9_Witness ==
    \E t \in Tasks :
        /\ tasks[t].pc = "reply"
        /\ tasks[t].exit = "deadline"
        /\ locks[tasks[t].lock].holder # t

(***************************************************************************)
(* Claims on the shell session, under SpecShell.                           *)
(***************************************************************************)
\* C2: in every state, after any sequence of run, cd, reset, bind, delete
\* and reload from the record, the cwd of every session is its
\* workspace_root or a descendant of it.
C2_CwdWithinWorkspaceRoot ==
    \A c \in DOMAIN sessions : _is_within(sessions[c].cwd, sessions[c].workspace_root)

\* C10 as stated: a cd whose resolved target is outside workspace_root does
\* not fail; it commits cwd = workspace_root.
C10_OutsideTargetCommitsRoot ==
    (cd_call.made /\ cd_call.outside) =>
        /\ cd_call.ok
        /\ cd_call.after = cd_call.workspace_root

\* C10 amended: a cd whose resolved target is outside workspace_root
\* succeeds and commits cwd = workspace_root when workspace_root is a
\* directory; when it is not, the cd fails and leaves cwd as it was.
C10_OutsideTargetCommitsExistingRoot ==
    (cd_call.made /\ cd_call.outside) =>
        IF cd_call.root_is_dir
        THEN cd_call.ok /\ cd_call.after = cd_call.workspace_root
        ELSE ~cd_call.ok /\ cd_call.after = cd_call.before

\* a cd from below the root to a target outside it ended at the root
C10_Witness ==
    /\ cd_call.made
    /\ cd_call.outside
    /\ cd_call.root_is_dir
    /\ cd_call.ok
    /\ cd_call.before # cd_call.workspace_root
    /\ cd_call.after = cd_call.workspace_root

(***************************************************************************)
(* Claims on ShellSession.run, under SpecRun and FairSpecRun.              *)
(***************************************************************************)
\* the step in which a cd returns from run
CdReturns == rpc = "entered" /\ sh_cmd.op \in {"cd", "cd-bare"} /\ rpc' = "idle"

\* the clamped target of the cd that run is about to handle
CdClamped ==
    LET cwd0 == IF ExistsDir(dirs, sh_cwd) THEN sh_cwd ELSE ShRoot
        arg == IF sh_cmd.op = "cd-bare" THEN <<"/">> \o ShRoot ELSE sh_cmd.arg
        target_path == IF arg # <<>> /\ Head(arg) = "/" THEN Tail(arg)
                       ELSE Resolve(cwd0 \o arg)
    IN  IF IsPrefixSeq(ShRoot, Resolve(target_path)) THEN Resolve(target_path) ELSE ShRoot

\* C11: when the clamped target of a cd is not a directory, the cd fails
\* with "No such directory", run returns 1, and cwd and env are what they
\* were when change_dir was called: the cwd run was entered with when that
\* is still a directory, the workspace root when it is not.
C11_FailedCdChangesNothing ==
    [][(CdReturns /\ CdClamped \notin dirs) =>
            /\ sh_ret' = [code |-> 1, msg |-> "No such directory"]
            /\ sh_env' = sh_env
            /\ ExistsDir(dirs, sh_cwd) => sh_cwd' = sh_cwd
            /\ ~ExistsDir(dirs, sh_cwd) => sh_cwd' = ShRoot]_vars

\* below the root, a cd to a directory that does not exist has failed
C11_Witness ==
    /\ rpc = "idle"
    /\ sh_cmd = [op |-> "cd", arg |-> <<"nope">>]
    /\ sh_ret.code = 1
    /\ sh_cwd = ShRoot \o <<"sub">>

\* the step in which ShellSession.reset runs
ResetStep == rpc = "idle" /\ sh_cmd'.op = "reset" /\ rpc' = "idle"

\* C12 as stated: a cd that returns 0 leaves cwd at the resolved target,
\* a subprocess is given the cwd of the session, and cwd changes only by a
\* cd that returns 0 or by reset.
C12_CwdHeldUntilNextCd ==
    /\ [][(CdReturns /\ sh_ret'.code = 0) => sh_cwd' = CdClamped]_vars
    /\ [](rpc \in {"running", "sourcing"} => sh_proc.cwd = sh_cwd)
    /\ [][sh_cwd' # sh_cwd => (CdReturns /\ sh_ret'.code = 0) \/ ResetStep]_vars

\* C12 amended: as above, and cwd also changes when run finds that it is no
\* longer a directory: run then sets it to the workspace root before it
\* handles the command.
C12_CwdHeldWhileItExists ==
    /\ [][(CdReturns /\ sh_ret'.code = 0) => sh_cwd' = CdClamped]_vars
    /\ [](rpc \in {"running", "sourcing"} => sh_proc.cwd = sh_cwd)
    /\ [][sh_cwd' # sh_cwd =>
            \/ CdReturns /\ sh_ret'.code = 0
            \/ ResetStep
            \/ rpc = "entered" /\ ~ExistsDir(dirs, sh_cwd) /\ sh_cwd' = ShRoot]_vars

\* after a cd to sub a delegated command runs in sub
C12_Witness ==
    /\ rpc = "running"
    /\ sh_cmd.op = "exec"
    /\ sh_cwd = ShRoot \o <<"sub">>
    /\ sh_proc.cwd = ShRoot \o <<"sub">>

\* the tokens of the export command run is about to handle, none when the
\* text does not parse
ExportParts == shlex_split(sh_cmd.arg).parts

\* the key and the value of a token KEY=VALUE of the model
TokenKey(part) == <<part[1]>>

TokenValue(part) == SubSeq(part, 3, Len(part))

\* C13: export K=V makes the env of the session, and with it the env given
\* to the subprocess of every later command, map K to V; keys the command
\* does not name keep their entry.  unset K removes the entry of K and no
\* other, and an unset of an absent key changes nothing and is no error.
C13_ExportAndUnsetPersist ==
    /\ [](rpc \in {"running", "sourcing"} => sh_proc.env = sh_env)
    /\ [][(rpc = "entered" /\ sh_cmd.op = "export" /\ ExportParts # <<>>
            /\ \A i \in 1..Len(ExportParts) : "=" \in {ExportParts[i][j] : j \in 1..Len(ExportParts[i])}) =>
            /\ rpc' = "running"
            /\ \A k \in EnvKeys :
                LET named == {i \in 1..Len(ExportParts) : TokenKey(ExportParts[i]) = k}
                IN  IF named = {}
                    THEN (k \in DOMAIN sh_env' <=> k \in DOMAIN sh_env)
                         /\ (k \in DOMAIN sh_env => sh_env'[k] = sh_env[k])
                    ELSE /\ k \in DOMAIN sh_env'
                         /\ sh_env'[k] = TokenValue(ExportParts[CHOOSE i \in named :
                                                        \A j \in named : j <= i])]_vars
    /\ [][(rpc = "entered" /\ sh_cmd.op = "unset" /\ sh_cmd.arg # <<>>) =>
            /\ rpc' = "running"
            /\ DOMAIN sh_env' = DOMAIN sh_env \ {sh_cmd.arg}
            /\ \A k \in DOMAIN sh_env' : sh_env'[k] = sh_env[k]]_vars

\* K has been exported with a new value and then unset: the command after
\* the unset runs without K
C13_Witness ==
    /\ rpc = "running"
    /\ sh_cmd = [op |-> "unset", arg |-> <<"K">>]
    /\ <<"K">> \notin DOMAIN sh_proc.env
    /\ <<"J">> \in DOMAIN sh_proc.env

\* C14: an export command with a token without "=" fails with "Invalid
\* export" and leaves env as it was, the valid tokens before the invalid
\* one included.
C14_InvalidExportSetsNothing ==
    [][(rpc = "entered" /\ sh_cmd.op = "export"
            /\ \E i \in 1..Len(ExportParts) : "=" \notin {ExportParts[i][j] : j \in 1..Len(ExportParts[i])}) =>
            /\ rpc' = "idle"
            /\ sh_ret' = [code |-> 1, msg |-> "Invalid export"]
            /\ sh_env' = sh_env]_vars

SourceFile ==
    LET cwd0 == IF ExistsDir(dirs, sh_cwd) THEN sh_cwd ELSE ShRoot
    IN  IF Head(sh_cmd.arg) = "/" THEN Tail(sh_cmd.arg) ELSE Resolve(cwd0 \o sh_cmd.arg)

\* C16: every failure of source leaves env and cwd as they were and makes
\* run return 1: "Refusing to source outside workspace" when the file is
\* outside the workspace root, whether it exists or not; "No such file"
\* when it is inside and missing; "source failed" when the subshell exits
\* with a code other than 0.
C16_FailedSourceChangesNothing ==
    /\ [][(rpc = "entered" /\ sh_cmd.op = "source"
            /\ ~IsPrefixSeq(ShRoot, Resolve(SourceFile))) =>
                /\ rpc' = "idle"
                /\ sh_ret' = [code |-> 1, msg |-> "Refusing to source outside workspace"]]_vars
    /\ [][(rpc = "entered" /\ sh_cmd.op = "source"
            /\ IsPrefixSeq(ShRoot, Resolve(SourceFile))
            /\ Resolve(SourceFile) \notin ScriptFiles \cup dirs) =>
                /\ rpc' = "idle"
                /\ sh_ret' = [code |-> 1, msg |-> "No such file"]]_vars
    /\ [][\A merged \in CapturedEnvs :
            SourceExit(1, merged) => sh_ret' = [code |-> 1, msg |-> "source failed"]]_vars
    /\ [][(sh_cmd.op = "source" /\ rpc # "idle" /\ rpc' = "idle" /\ sh_ret'.code # 0) =>
            /\ sh_ret'.code = 1
            /\ sh_env' = sh_env
            /\ ExistsDir(dirs, sh_cwd) => sh_cwd' = sh_cwd]_vars

\* a file that is outside the workspace and does not exist was refused as
\* outside, below the root, and cwd is where it was
C16_Witness ==
    /\ rpc = "idle"
    /\ sh_cmd = [op |-> "source", arg |-> <<"/", "etc", "gone">>]
    /\ sh_ret = [code |-> 1, msg |-> "Refusing to source outside workspace"]
    /\ sh_cwd = ShRoot \o <<"sub">>

\* C17: run always returns.
C17_RunAlwaysReturns ==
    (rpc = "entered") ~> (rpc = "idle")

(***************************************************************************)
(* Claims on send_keys, under SpecKeys.                                    *)
(***************************************************************************)
\* the keystrokes of the contract for the lines of ktext: the first line,
\* then C-j and the line for every later line, then Enter when send_enter
KeysOfContract ==
    [i \in 1..(2 * Len(ktext) - 1) |->
        IF i % 2 = 1 THEN ktext[(i + 1) \div 2] ELSE KeyCj]
    \o (IF send_enter THEN <<KeyEnter>> ELSE <<>>)

\* C18: for a text of n >= 1 lines send_keys sends line 1, then C-j and the
\* line for each later line, then one Enter if and only if send_enter: n-1
\* times C-j, none after the last line.
C18_NewlineOnlyBetweenLines ==
    (kpc = "done" /\ Len(ktext) >= 1) => keys = KeysOfContract

(***************************************************************************)
(* Claims on binding, reload and deletion, under SpecShell.                *)
(***************************************************************************)
\* C19: workspace_root changes only by a bind or by the unbind of a
\* deletion; a session bound to a project, after a reload from its record
\* as well, has the directory of that project as its workspace_root.
C19_BoundRootIsProjectDir ==
    \A c \in DOMAIN sessions : \A slug \in Slugs :
        sessions[c].term_target = target_for(slug) =>
            sessions[c].workspace_root = path_for(slug)

\* the terminal target a conversation has, in memory or in its record
LastTarget(chat) ==
    IF chat \in DOMAIN sessions THEN sessions[chat].term_target
    ELSE IF chat \in DOMAIN disk THEN disk[chat].term_target
    ELSE NoTarget

\* C20: in the step that destroys a project and its pane, every
\* conversation bound to the target of the project loses its target and its
\* snapshot becomes empty.
C20_DeletionClearsBinding ==
    [][\A slug \in Slugs :
        (exists(slug) /\ ~exists(slug)' /\ slug \notin panes') =>
            \A chat \in Chats :
                LastTarget(chat) = target_for(slug) =>
                    /\ LastTarget(chat)' = NoTarget
                    /\ LastSnapshot(chat)' = <<>>]_vars

(***************************************************************************)
(* Claims on loading a record, under SpecLoad.                             *)
(***************************************************************************)
\* a file that cannot be read, is not a JSON object, or has a field that is
\* not a text
Malformed(file) ==
    \/ file.kind # "object"
    \/ file.data.mode = NotText
    \/ file.data.cwd = <<NotText>>
    \/ file.data.term_target = NotText
    \/ file.data.term_snapshot = <<NotText>>

\* C21: a step that loads the session of a conversation whose file cannot be
\* read or is malformed gives that conversation the default session (shell
\* mode, cwd the workspace root, no target, empty snapshot) and leaves the
\* sessions of the other conversations as they were.
C21_MalformedRecordLoadsFresh ==
    [][\A c \in Chats :
        (c \notin DOMAIN sessions /\ c \in DOMAIN sessions' /\ c \in DOMAIN disk
            /\ Malformed(disk[c]))
        => /\ sessions'[c] = NewSession
           /\ \A d \in DOMAIN sessions : sessions'[d] = sessions[d]]_vars

(***************************************************************************)
(* Claims on the replies and the order of the interceptors, under SpecRun. *)
(***************************************************************************)
\* C22: a shell command never ends without a reply to its chat: whenever
\* the call of run for a command is over, on the success path as on every
\* error path, _run_shell_text has sent its answer.
C22_EveryCommandAnswered ==
    (rpc = "idle" /\ sh_cmd.op \notin {"none", "reset"}) => reply = "sent"

(***************************************************************************)
(* Claims on the availability probe and the gate, under Spec.              *)
(***************************************************************************)
\* the coroutine is about to capture the pane or to send keys to it
AtPaneOperation(t) == tasks[t].pc \in {"bridge", "polling", "capturing", "newkeys", "newcap"}

\* C23: a request captures a pane or sends keys to it only after it has
\* called the availability probe and the probe reported tmux available;
\* terminal turns, /term_capture and project creation alike.
C23_PaneOperationOnlyAfterProbe ==
    \A t \in Tasks : AtPaneOperation(t) => tasks[t].probed

\* the coroutine holds the lock of the target it works on
HoldsGate(t) ==
    /\ tasks[t].lock # 0
    /\ tmux_locks[tasks[t].target] = tasks[t].lock
    /\ locks[tasks[t].lock].holder = t

\* C24: every capture and every keystroke sent to a pane is issued by a
\* coroutine that holds the lock of that target, the keys that provision the
\* pane of a new project included.
C24_PaneOperationOnlyInsideGate ==
    \A t \in Tasks : AtPaneOperation(t) => HoldsGate(t)

(***************************************************************************)
(* Claims on the counter of the poll loop, under SpecIdle.                 *)
(***************************************************************************)
\* a step of the loop that took a sample
Sampled == ipc = "loop" /\ ipc' \in {"loop", "exit"} /\ elapsed' # elapsed

\* C25: a sample of the poll loop that equals the sample before it and is
\* not busy adds one to stable_count, every other sample sets it to zero;
\* the loop is left by the break only after three samples in a row that are
\* equal and not busy, and the snapshot returned then is not busy.
C25_CounterCountsQuietSamples ==
    /\ [][Sampled =>
            stable_count' = IF captured' = captured /\ ~_looks_working(captured')
                            THEN stable_count + 1
                            ELSE 0]_vars
    /\ [][(Sampled /\ ipc' = "exit") =>
            /\ Len(recent') = IdleThreshold
            /\ \A i \in 1..IdleThreshold :
                recent'[i] = captured' /\ ~_looks_working(recent'[i])
            /\ last' = captured']_vars
    /\ []((ipc = "done" /\ stable_count >= IdleThreshold) =>
            result.snapshot = last /\ ~_looks_working(result.snapshot))

\* the loop was left by the break, before the deadline, after the counter had
\* been set back by a sample that was busy or had changed
C25_Witness ==
    /\ ipc = "done"
    /\ elapsed < TimeoutTicks
    /\ ~steady
    /\ stable_count = IdleThreshold
    /\ ~_looks_working(result.snapshot)

(***************************************************************************)
(* Claims on the baseline of a turn, under Spec.                           *)
(***************************************************************************)
\* the step in which the turn of coroutine t fixes its baseline and sends
\* its keys
TakesBaseline(t) == tasks[t].pc = "bridge" /\ tasks'[t].pc = "polling"

\* the step that ends the wait of the turn of coroutine t without an error
EndsTurn(t) == tasks[t].pc = "polling" /\ tasks'[t].pc = "reply"

\* C26 as stated: the baseline of a turn is the snapshot stored for its
\* conversation, whatever that is, the empty text included.
C26_BaselineIsStoredSnapshot ==
    [][\A t \in Tasks :
        TakesBaseline(t) => tasks'[t].iprev = LastSnapshot(tasks[t].chat)]_vars

\* C26 amended: the step that ends a turn stores a full capture as the
\* snapshot of its conversation and of no other; the baseline of a turn is
\* the snapshot stored for its conversation when that is not empty, also
\* for a turn that waited for the lock while the turn before it ran; when
\* it is empty the baseline is a capture taken before the keys are sent.
C26_BaselineIsStoredSnapshotUnlessEmpty ==
    /\ [][\A t \in Tasks :
            EndsTurn(t) =>
                /\ LastSnapshot(tasks[t].chat)' \in TurnTexts
                /\ \A c \in DOMAIN sessions \ {tasks[t].chat} :
                    sessions'[c].term_snapshot = sessions[c].term_snapshot]_vars
    /\ [][\A t \in Tasks :
            TakesBaseline(t) =>
                IF LastSnapshot(tasks[t].chat) # <<>>
                THEN tasks'[t].iprev = LastSnapshot(tasks[t].chat)
                ELSE tasks'[t].iprev \in TurnTexts]_vars

\* a turn has ended and is at its reply; the next turn of the same
\* conversation on the same target has taken the snapshot it stored as its
\* baseline
C26_Witness ==
    \E t, u \in Tasks :
        /\ t # u
        /\ tasks[u].pc = "reply"
        /\ tasks[t].pc = "polling"
        /\ tasks[t].chat = tasks[u].chat
        /\ tasks[t].target = tasks[u].target
        /\ tasks[t].iprev # <<>>
        /\ tasks[t].iprev = sessions[tasks[t].chat].term_snapshot

\* run has entered with a command that one of the interceptors handles: cd,
\* source, or an export or unset that is applied without an error
Intercepted ==
    /\ rpc = "entered"
    /\ \/ sh_cmd.op \in {"cd", "cd-bare", "source"}
       \/ /\ sh_cmd.op \in {"export", "unset"}
          /\ ~_apply_export_or_unset(sh_env, sh_cmd).raised
          /\ _apply_export_or_unset(sh_env, sh_cmd).err = ""

\* C27: a command that an interceptor handled is not handed to bash: run
\* returns for it without a command subprocess.
C27_InterceptedCommandNotDelegated ==
    [][Intercepted => rpc' # "running"]_vars

(***************************************************************************)
(* Claims on the scroll-eviction case of the overlap diff, under SpecDiff. *)
(***************************************************************************)
\* prev = X+Y and new = Y+Z for a Y of k >= 1 characters
Evicted(k) == k \in 1..Min(Len(prev), Len(new)) /\ Suffix(prev, k) = Prefix(new, k)

\* C28 as stated: whenever prev = X+Y and new = Y+Z with Y not empty,
\* _increment returns Z.
C28_EvictionReturnsAppended ==
    dpc = "out" =>
        \A k \in 1..Len(new) : Evicted(k) => out = Drop(new, k)

\* C28 amended: whenever prev = X+Y and new = Y+Z with Y not empty,
\* _increment returns a tail of Z; it returns Z itself when no longer tail
\* of prev than Y is a head of new.
C28_EvictionReturnsTailOfAppended ==
    dpc = "out" =>
        \A k \in 1..Len(new) :
            Evicted(k) =>
                /\ \E j \in k..Len(new) : out = Drop(new, j)
                /\ (\A j \in (k + 1)..Len(new) : ~Evicted(j)) => out = Drop(new, k)

\* X = "a" scrolled off, Y = "b" stayed, Z = "a" was appended
C28_Witness ==
    /\ dpc = "out"
    /\ prev = <<"a", "b">>
    /\ new = <<"b", "a">>
    /\ out = <<"a">>

(***************************************************************************)
(* Claims on the snapshot across a change of target, under SpecShell.      *)
(***************************************************************************)
\* this step binds the conversation to a target other than the one it had
BoundElsewhere(chat) ==
    /\ chat \in DOMAIN sessions'
    /\ sessions'[chat].term_target # NoTarget
    /\ sessions'[chat].term_target # LastTarget(chat)

\* C30: whenever a conversation is bound to a target different from its
\* current one, its snapshot is empty afterwards, so that a snapshot taken
\* from one pane is never the baseline of a turn on another pane.
C30_RebindClearsSnapshot ==
    [][\A chat \in Chats :
          BoundElsewhere(chat) => sessions'[chat].term_snapshot = <<>>]_vars

(***************************************************************************)
(* Claims on the allow list, under SpecAuth.                               *)
(***************************************************************************)
\* this step is the handling of an update from a user outside the allow list
FromOutside == \E user_id \in Users : ~authorized(user_id) /\ Dispatch(user_id)

\* C29: no request of a user outside the allow list changes the session of
\* any conversation or its record, whichever handler it is dispatched to.
C29_OutsiderChangesNoSession ==
    [][FromOutside => UNCHANGED <<sessions, disk>>]_vars

====
